---- MODULE Spec2Model ----
(***************************************************************************)
(* A model of the catalog clients, the input->output mapper and the helper *)
(* functions of the OPERA monitoring tools:                                *)
(*   - query_cmr_for_products (duplicate_analysis): argument validation,   *)
(*     the search-after pagination loop, the LANDSAT-9 filter, the return; *)
(*   - S1ToRTCMapper.map_granules / query_cmr_for_rtc (tools/s1_to_rtc):   *)
(*     the per-granule query with its retry loop;                          *)
(*   - map_inputs_to_output (duplicate_analysis): the mapping rows, the    *)
(*     duplicate counts, the orphans, the missing inputs and the columns   *)
(*     derived from the production time of the ids;                        *)
(*   - get_latest_input_granule (monitoring/latency_graph);                *)
(*   - remove_trailing_zeros_and_last_entry and get_statistics             *)
(*     (monitoring/opera_daily_products_query);                            *)
(*   - normalize_to_datetime and get_dates_between (duplicate_analysis);   *)
(*   - parse_input_granules (monitoring/latency_graph);                    *)
(*   - process_dswx_by_sensing_date_range (duplicate_analysis): the loop   *)
(*     over the dates, the resume test, the three writes, repeated runs;   *)
(*   - compare_against_riley_results (duplicate_analysis).                 *)
(* Each part has its own specification (SpecQuery, SpecRtc, SpecMap,       *)
(* SpecLatest, SpecStats, SpecDates, SpecParse, SpecRange, SpecCompare);   *)
(* the variables of the other parts stay idle in it.                       *)
(***************************************************************************)
EXTENDS Integers, Sequences, FiniteSets, TLC

VARIABLES
    \* ---- query_cmr_for_products
    qpc,            \* position: "call", "send", "wait", "finish", "done"
    args,           \* the call's arguments, as passed by the caller
    norm,           \* the datetime arguments after the process_arg decorators
    query_params,   \* the parameters every request of the loop carries
    results,        \* the list accumulated by the loop
    search_after,   \* the cursor the next request will carry
    requests,       \* log: the requests issued, in order
    responses,      \* log: the responses received, in order
    outcome,        \* "running", "returned" or the exception raised
    granules,       \* the returned list
    \* ---- S1ToRTCMapper.map_granules / query_cmr_for_rtc
    rpc,            \* position: "next", "send", "wait", "done"
    s1_granule_ids, \* the argument of map_granules
    idx,            \* index of the granule being processed (enumerate)
    attempt,        \* loop variable of the retry loop (0-based)
    rtc_requests,   \* log: requests of the current granule's query
    rtc_responses,  \* log: responses of the current granule's query
    sleeps,         \* log: every time.sleep of the run, in milliseconds
    exhausted,      \* history: per granule, did its query run out of attempts
    mappings,       \* the list map_granules builds and returns
    \* ---- map_inputs_to_output
    mpc,            \* position: "call", "done"
    dswx_hls_results, hlsl30_results, hlss30_results,   \* the arguments
    mresult         \* what the call produced: the three results, or the exception

qvars == <<qpc, args, norm, query_params, results, search_after, requests,
           responses, outcome, granules>>
rvars == <<rpc, s1_granule_ids, idx, attempt, rtc_requests, rtc_responses,
           sleeps, exhausted, mappings>>
mvars == <<mpc, dswx_hls_results, hlsl30_results, hlss30_results, mresult>>
VARIABLES
    \* ---- get_latest_input_granule
    lpc,            \* position: "call", "done"
    input_gran_list, prod_type,     \* the arguments
    latest          \* what the call produced: the three results, or the exception
lvars == <<lpc, input_gran_list, prod_type, latest>>

VARIABLES
    \* ---- remove_trailing_zeros_and_last_entry / get_statistics
    spc,            \* position: "call", "done"
    sample_values,  \* the argument: the daily product counts
    trimmed,        \* what remove_trailing_zeros_and_last_entry returned
    stat            \* what get_statistics returned
svars == <<spc, sample_values, trimmed, stat>>

VARIABLES
    \* ---- normalize_to_datetime / get_dates_between
    dpc,            \* position: "call", "normalized", "done"
    norm_value,     \* the argument of normalize_to_datetime
    normalized,     \* what normalize_to_datetime(norm_value) produced
    renormalized,   \* what normalize_to_datetime produced on that result
    range_start, range_end,     \* the arguments of get_dates_between
    date_list       \* what get_dates_between produced
dvars == <<dpc, norm_value, normalized, renormalized, range_start, range_end,
           date_list>>

VARIABLES
    \* ---- parse_input_granules
    ppc,            \* position: "loop", "report", "done"
    gran_batch_result,                  \* argument: the batches of input granules
    inputgran_output_revision_dict,     \* argument: chosen input id -> output revision dates
    time_taken_dict,    \* the three lists of deltas
    tracking_dict,      \* per metric, the largest delta seen and where
    parse_outcome       \* "running", "returned" or the exception raised
pvars == <<ppc, gran_batch_result, inputgran_output_revision_dict, time_taken_dict,
           tracking_dict, parse_outcome>>

VARIABLES
    \* ---- process_dswx_by_sensing_date_range
    gpc,            \* position: "call", "date", "write_dupes", "write_orphans",
                    \* "write_missing", "done"
    range_args,     \* the arguments: date_from, date_to, resume
    dates_list,     \* what get_dates_between gave
    date_idx,       \* index of the date the loop is at
    output_files,   \* the files of output_dir, by name
    called_dates,   \* log: the dates process_dswx_by_sensing_date was called with
    skipped_dates,  \* log: the dates the run skipped
    day_result,     \* what process_dswx_by_sensing_date returned for the date
    range_return,   \* what the run returned
    run_count       \* the number of runs finished
gvars == <<gpc, range_args, dates_list, date_idx, output_files, called_dates,
           skipped_dates, day_result, range_return, run_count>>

VARIABLES
    \* ---- compare_against_riley_results
    cpc,            \* position: "call", "done"
    riley_dupes_for_date,   \* the reference mapping of the date: input id -> output ids
    dupes_df,       \* the rows of the date's mapping file
    compare_result  \* what the call returned
cvars == <<cpc, riley_dupes_for_date, dupes_df, compare_result>>

vars == <<qvars, rvars, mvars, lvars, svars, dvars, pvars, gvars, cvars>>

-----------------------------------------------------------------------------
(* Values.  Python's None, dates, datetimes and strings are records with a  *)
(* kind, so that values of different types can be compared.                 *)

NoneV == [kind |-> "None"]
DateV(d) == [kind |-> "date", day |-> d]
DateTimeV(d, t) == [kind |-> "datetime", day |-> d, tod |-> t]
StrV(s) == [kind |-> "str", text |-> s]
\* A value that may be None
Some(v) == [kind |-> "some", value |-> v]

\* datetime.time.min, and 23:59:59, in seconds of the day
MidnightTod == 0
EndOfDayTod == 86399

Ok(v) == [ok |-> TRUE, value |-> v]
Raise(e) == [ok |-> FALSE, exc |-> e]

\* datetime.datetime.fromisoformat on the strings the model uses: the ISO-8601
\* strings parse (a date-only string to midnight), anything else raises.
fromisoformat(s) ==
    CASE s = "2025-01-01" -> Ok(DateTimeV(1, MidnightTod))
      [] s = "2025-01-01T06:00:00" -> Ok(DateTimeV(1, 21600))
      [] s = "2025-01-02T00:00:00" -> Ok(DateTimeV(2, MidnightTod))
      [] OTHER -> Raise("ValueError")

\* Lines 102-150: a datetime as it is, a date at midnight, a string as
\* fromisoformat reads it, None as it is; any other type raises ValueError.
NormalizeDateToEndOfDay(value) ==
    CASE value.kind = "datetime" -> Ok(value)
      [] value.kind = "date" -> Ok(DateTimeV(value.day, EndOfDayTod))
      [] value.kind = "str" -> fromisoformat(value.text)
      [] value.kind = "None" -> Ok(value)
      [] OTHER -> Raise("ValueError")
NormalizeBadStringToNone(value) ==
    CASE value.kind = "datetime" -> Ok(value)
      [] value.kind = "date" -> Ok(DateTimeV(value.day, MidnightTod))
      [] value.kind = "str" ->
            IF fromisoformat(value.text).ok THEN fromisoformat(value.text)
            ELSE Ok(NoneV)
      [] value.kind = "None" -> Ok(value)
      [] OTHER -> Raise("ValueError")
normalize_to_datetime(value) ==
    CASE value.kind = "datetime" -> Ok(value)
      [] value.kind = "date" -> Ok(DateTimeV(value.day, MidnightTod))
      [] value.kind = "str" -> fromisoformat(value.text)
      [] value.kind = "None" -> Ok(value)
      [] OTHER -> Raise("ValueError")

-----------------------------------------------------------------------------
(* The catalog, as query_cmr_for_products sees it.                          *)

\* Bound on the requests of one pagination loop (the code's loop is unbounded).
MaxRequests == 3

PageSize == 2000
SortKeys == <<"provider", "start_date", "producer_granule_id">>

Granule(id, rev, platform) ==
    [native_id |-> id, revision_id |-> rev, platform |-> platform]

g1 == Granule("G1", 1, "LANDSAT-8")
g2 == Granule("G2", 1, "LANDSAT-9")

\* The pages a response can carry; <<g1>> then <<g2, g1>> is an overlap.
Pages == {<< >>, <<g1>>, <<g2, g1>>}
Cursors == {"c1", "c2"}
NoCursor == "None"

\* What a request can meet: a 2xx response with items and maybe a cursor
\* header, an HTTP error status, or no response at all.
OkResponses ==
    {[kind |-> "ok", items |-> p, cursor |-> c] :
        p \in Pages, c \in Cursors \cup {NoCursor}}
ErrorKinds == {"http_4xx", "http_5xx", "connection_error"}
TransientKinds == {"http_5xx", "connection_error"}
ErrorResponses == {[kind |-> k, items |-> << >>, cursor |-> NoCursor] : k \in ErrorKinds}
Responses == OkResponses \cup ErrorResponses

-----------------------------------------------------------------------------
(* query_cmr_for_products                                                   *)

ArgSets ==
    [collection : {"HLSL30"},
     sensor_datetime_from : {NoneV, DateV(1), StrV("not a date")},
     sensor_datetime_to : {NoneV, DateTimeV(2, MidnightTod)},
     revision_datetime_from : {NoneV, StrV("2025-01-01T06:00:00")},
     revision_datetime_to : {NoneV, DateTimeV(2, MidnightTod)},
     north_america_flag : BOOLEAN,
     central_america_flag : BOOLEAN,
     remove_landsat9 : BOOLEAN]

DatetimeArgs == {"sensor_datetime_from", "sensor_datetime_to",
                 "revision_datetime_from", "revision_datetime_to"}

\* The four process_arg decorators: each normalizes its argument.
process_arg_ok(a) == \A n \in DatetimeArgs : normalize_to_datetime(a[n]).ok
process_arg(a) == [n \in DatetimeArgs |-> normalize_to_datetime(a[n]).value]

\* Line 270: no datetime argument at all.
NoDatetimesCheckOmitted(n) == FALSE
NoDatetimes(n) == \A a \in DatetimeArgs : n[a] = NoneV

\* Lines 276-291: a missing end is the end of the start's day.
EndOfDay(dt) == DateTimeV(dt.day, EndOfDayTod)
InferTo(from, to) == IF from # NoneV /\ to = NoneV THEN EndOfDay(from) ELSE to

\* Lines 296-324: the parameters of the requests.
BuildParams(a, n) ==
    LET sensor_to == InferTo(n.sensor_datetime_from, n.sensor_datetime_to)
        revision_to == InferTo(n.revision_datetime_from, n.revision_datetime_to)
    IN  [short_name |-> a.collection,
         revision_date |->
            IF n.revision_datetime_from # NoneV /\ revision_to # NoneV
            THEN <<normalize_to_datetime(n.revision_datetime_from).value,
                   normalize_to_datetime(revision_to).value>>
            ELSE << >>,
         temporal |->
            IF n.sensor_datetime_from # NoneV /\ sensor_to # NoneV
            THEN <<normalize_to_datetime(n.sensor_datetime_from).value,
                   normalize_to_datetime(sensor_to).value>>
            ELSE << >>,
         polygon |->
            IF a.north_america_flag THEN "NORTH_AMERICA_POLYGON"
            ELSE IF a.central_america_flag THEN "CENTRAL_AMERICA_POLYGON"
            ELSE "none",
         page_size |-> PageSize,
         sort_key |-> SortKeys]

NoParams == [short_name |-> "none"]

InitQuery ==
    /\ qpc = "call"
    /\ args \in ArgSets
    /\ norm = [n \in DatetimeArgs |-> NoneV]
    /\ query_params = NoParams
    /\ results = << >>
    /\ search_after = NoCursor
    /\ requests = << >>
    /\ responses = << >>
    /\ outcome = "running"
    /\ granules = << >>

IdleQuery ==
    /\ qpc = "idle"
    /\ args = NoneV
    /\ norm = NoneV
    /\ query_params = NoParams
    /\ results = << >>
    /\ search_after = NoCursor
    /\ requests = << >>
    /\ responses = << >>
    /\ outcome = "idle"
    /\ granules = << >>

\* Lines 331-333: the request; the CMR-Search-After header is set only when
\* a cursor is held.
RequestOf(params, cursor) == [params |-> params, cursor |-> cursor]

\* Line 338: response.json().get('items', []).
ItemsOf(resp) == resp.items

\* Line 342: results.extend(data).
ReplaceResults(res, data) == data
ExtendResults(res, data) == res \o data

\* Line 343: search_after = response.headers.get('CMR-Search-After').
KeepFirstCursor(held, resp) == IF held = NoCursor THEN resp.cursor ELSE held
NextSearchAfter(held, resp) == resp.cursor

\* Line 202: the LANDSAT-9 filter, a list comprehension (order kept).
KeepEveryPlatform(hls_granules) == hls_granules
remove_landsat9_granules(hls_granules) ==
    SelectSeq(hls_granules, LAMBDA x : x.platform # "LANDSAT-9")

\* Line 366: the format spec %Y-%m-%d applied to sensor_datetime_from; None
\* does not support it and the print raises TypeError.
PrintRaises(n) == n.sensor_datetime_from = NoneV

\* The decorators and lines 270-324: normalize, validate, build the parameters.
QueryCall ==
    /\ qpc = "call"
    /\ IF ~process_arg_ok(args)
       THEN /\ outcome' = "ValueError"
            /\ qpc' = "done"
            /\ UNCHANGED <<norm, query_params>>
       ELSE LET n == process_arg(args)
            IN  IF NoDatetimes(n)
                THEN /\ outcome' = "ValueError"
                     /\ qpc' = "done"
                     /\ norm' = n
                     /\ UNCHANGED query_params
                ELSE /\ norm' = [n EXCEPT
                            !.sensor_datetime_to =
                                InferTo(n.sensor_datetime_from, n.sensor_datetime_to),
                            !.revision_datetime_to =
                                InferTo(n.revision_datetime_from, n.revision_datetime_to)]
                     /\ query_params' = BuildParams(args, n)
                     /\ qpc' = "send"
                     /\ UNCHANGED outcome
    /\ UNCHANGED <<args, results, search_after, requests, responses, granules>>
    /\ UNCHANGED <<rvars, mvars, lvars, svars, dvars, pvars, gvars, cvars>>

\* Lines 330-335: one request of the loop leaves.
QuerySend ==
    /\ qpc = "send"
    /\ Len(requests) < MaxRequests
    /\ requests' = Append(requests, RequestOf(query_params, search_after))
    /\ qpc' = "wait"
    /\ UNCHANGED <<args, norm, query_params, results, search_after, responses,
                   outcome, granules>>
    /\ UNCHANGED <<rvars, mvars, lvars, svars, dvars, pvars, gvars, cvars>>

\* Lines 335-346: the catalog answers and the loop body runs to its end.
QueryReceive ==
    /\ qpc = "wait"
    /\ \E resp \in Responses :
        /\ responses' = Append(responses, resp)
        /\ IF resp.kind = "connection_error"
           THEN /\ outcome' = "ConnectionError"
                /\ qpc' = "done"
                /\ UNCHANGED <<results, search_after>>
           ELSE IF resp.kind # "ok"
           THEN /\ outcome' = "HTTPError"
                /\ qpc' = "done"
                /\ UNCHANGED <<results, search_after>>
           ELSE IF ItemsOf(resp) = << >>
           THEN /\ qpc' = "finish"
                /\ UNCHANGED <<results, search_after, outcome>>
           ELSE /\ results' = ExtendResults(results, ItemsOf(resp))
                /\ search_after' = NextSearchAfter(search_after, resp)
                /\ qpc' = IF search_after' = NoCursor THEN "finish" ELSE "send"
                /\ UNCHANGED outcome
    /\ UNCHANGED <<args, norm, query_params, requests, granules>>
    /\ UNCHANGED <<rvars, mvars, lvars, svars, dvars, pvars, gvars, cvars>>

\* Lines 357-368: copy, filter, print, return.
QueryFinish ==
    /\ qpc = "finish"
    /\ granules' = IF args.remove_landsat9
                   THEN remove_landsat9_granules(results)
                   ELSE results
    /\ outcome' = IF PrintRaises(norm) THEN "TypeError" ELSE "returned"
    /\ qpc' = "done"
    /\ UNCHANGED <<args, norm, query_params, results, search_after, requests,
                   responses>>
    /\ UNCHANGED <<rvars, mvars, lvars, svars, dvars, pvars, gvars, cvars>>

NextQuery == QueryCall \/ QuerySend \/ QueryReceive \/ QueryFinish

-----------------------------------------------------------------------------
(* S1ToRTCMapper (tools/s1_to_rtc)                                          *)

\* Bound on the length of the list given to map_granules.
MaxGranules == 2

max_attempts == 3
\* time.sleep(0.05), in milliseconds
SleepMs == 50

\* Granule ids are the sequences of their underscore-separated fields; the
\* double underscore of an SLC id is an empty field.
S1_A == <<"S1A", "IW", "SLC", "", "1SDV", "20220310T121213", "20220310T121240",
          "042259", "050962", "1662">>
S1_B == <<"S1A", "IW", "GRDH", "1SDV", "20220311T000000", "20220311T000027",
          "042266", "050999", "0A0A">>
S1_SHORT == <<"S1A", "IW", "SLC", "", "1SDV">>
S1_BADTIME == <<"S1A", "IW", "GRDH", "1SDV", "2022-03-10", "20220310T121240",
                "042259", "050962", "1662">>
S1Pool == {S1_A, S1_B, S1_SHORT, S1_BADTIME}

\* datetime.strptime(s, "%Y%m%dT%H%M%S") on the strings the model uses.
strptime(s) ==
    CASE s = "20220310T121213" -> Ok(DateTimeV(10, 43933))
      [] s = "20220310T121240" -> Ok(DateTimeV(10, 43960))
      [] s = "20220311T000000" -> Ok(DateTimeV(11, 0))
      [] s = "20220311T000027" -> Ok(DateTimeV(11, 27))
      [] OTHER -> Raise("ValueError")

\* Lines 45-74: S1Granule.from_granule_id.
MinParts == 9
from_granule_id(granule_id) ==
    LET parts == SelectSeq(granule_id, LAMBDA p : p # "")
    IN  IF Len(parts) < MinParts THEN Raise("ValueError")
        ELSE IF ~strptime(parts[5]).ok \/ ~strptime(parts[6]).ok THEN Raise("ValueError")
        ELSE Ok([granule_id |-> granule_id,
                 satellite |-> parts[1],
                 mode |-> parts[2],
                 product_type |-> parts[3],
                 start_time |-> strptime(parts[5]).value,
                 end_time |-> strptime(parts[6]).value,
                 orbit |-> parts[7]])

\* Lines 111-121: the parameters of the query of one S1 granule.
RtcParams(s1_granule) ==
    [collection_concept_id |-> "C2777436413-ASF",
     page_size |-> PageSize,
     temporal |-> <<s1_granule.start_time, s1_granule.end_time>>]

\* The RTC records a response can list.
RtcEntry(id, inputs) == [native_id |-> id, InputGranules |-> inputs]
rtc1 == RtcEntry("RTC_1", <<S1_A>>)
rtc2 == RtcEntry("RTC_2", <<S1_B>>)
rtc3 == RtcEntry("RTC_3", <<S1_B, S1_A>>)
RtcPages == {<< >>, <<rtc1>>, <<rtc2, rtc1, rtc3>>}
RtcResponses ==
    {[kind |-> "ok", items |-> p] : p \in RtcPages}
    \cup {[kind |-> k, items |-> << >>] : k \in ErrorKinds}

InSeq(x, seq) == \E i \in 1..Len(seq) : seq[i] = x

\* Lines 133-143: the entries derived from the S1 granule.
matching_entries(s1_granule, entries) ==
    SelectSeq(entries, LAMBDA e : InSeq(s1_granule.granule_id, e.InputGranules))

\* Lines 145-151: which exceptions the retry loop catches.  HTTPError (raised
\* by raise_for_status for 4xx and 5xx) is a RequestException, as are
\* connection errors and timeouts.
IsRequestException(kind) == kind \in {"http_4xx", "http_5xx", "connection_error"}

RTCMapping(s1, rtc, found, metadata, error) ==
    [s1_granule |-> s1, rtc_granules |-> rtc, found |-> found,
     cmr_metadata |-> metadata, error |-> error]

NoError == "None"

NativeIds(entries) == [i \in 1..Len(entries) |-> entries[i].native_id]

\* Lines 189-199: the mapping built from the entries the query returned.
MappingOf(granule_id, rtc_entries) ==
    IF rtc_entries # << >>
    THEN RTCMapping(granule_id, NativeIds(rtc_entries), TRUE, Some(rtc_entries), NoError)
    ELSE RTCMapping(granule_id, << >>, FALSE, NoneV, NoError)

\* Line 205: the mapping of a granule whose processing raised.
ErrorMappingWithoutError(granule_id, e) ==
    RTCMapping(granule_id, << >>, FALSE, NoneV, NoError)
ErrorMapping(granule_id, e) == RTCMapping(granule_id, << >>, FALSE, NoneV, e)

InitRtc ==
    /\ rpc = "next"
    /\ s1_granule_ids \in UNION {[1..n -> S1Pool] : n \in 0..MaxGranules}
    /\ idx = 1
    /\ attempt = 0
    /\ rtc_requests = << >>
    /\ rtc_responses = << >>
    /\ sleeps = << >>
    /\ exhausted = << >>
    /\ mappings = << >>

IdleRtc ==
    /\ rpc = "idle"
    /\ s1_granule_ids = << >>
    /\ idx = 1
    /\ attempt = 0
    /\ rtc_requests = << >>
    /\ rtc_responses = << >>
    /\ sleeps = << >>
    /\ exhausted = << >>
    /\ mappings = << >>

\* Lines 180-183 and 203-205: the next granule id is parsed; an id that
\* does not parse gets its error mapping at once.
RtcParse ==
    /\ rpc = "next"
    /\ idx <= Len(s1_granule_ids)
    /\ LET parsed == from_granule_id(s1_granule_ids[idx])
       IN  IF parsed.ok
           THEN /\ rpc' = "send"
                /\ attempt' = 0
                /\ rtc_requests' = << >>
                /\ rtc_responses' = << >>
                /\ UNCHANGED <<idx, mappings, exhausted>>
           ELSE /\ mappings' = Append(mappings,
                                      ErrorMapping(s1_granule_ids[idx], parsed.exc))
                /\ exhausted' = Append(exhausted, FALSE)
                /\ idx' = idx + 1
                /\ UNCHANGED <<rpc, attempt, rtc_requests, rtc_responses>>
    /\ UNCHANGED <<s1_granule_ids, sleeps>>
    /\ UNCHANGED <<qvars, mvars, lvars, svars, dvars, pvars, gvars, cvars>>

\* Line 126: one attempt of the query leaves.
RtcSend ==
    /\ rpc = "send"
    /\ rtc_requests' = Append(rtc_requests,
            RtcParams(from_granule_id(s1_granule_ids[idx]).value))
    /\ rpc' = "wait"
    /\ UNCHANGED <<s1_granule_ids, idx, attempt, rtc_responses, sleeps,
                   exhausted, mappings>>
    /\ UNCHANGED <<qvars, mvars, lvars, svars, dvars, pvars, gvars, cvars>>

\* Lines 126-151 and 187-201: the catalog answers the attempt.  A response
\* is filtered and mapped; a caught failure is retried after the sleep, or,
\* on the last attempt, the query returns the empty list and that is mapped.
RtcReceive ==
    /\ rpc = "wait"
    /\ \E resp \in RtcResponses :
        /\ rtc_responses' = Append(rtc_responses, resp)
        /\ IF IsRequestException(resp.kind) /\ attempt < max_attempts - 1
           THEN /\ sleeps' = Append(sleeps, SleepMs)
                /\ attempt' = attempt + 1
                /\ rpc' = "send"
                /\ UNCHANGED <<idx, exhausted, mappings>>
           ELSE LET s1_granule == from_granule_id(s1_granule_ids[idx]).value
                    rtc_entries == IF IsRequestException(resp.kind)
                                   THEN << >>
                                   ELSE matching_entries(s1_granule, resp.items)
                IN  /\ mappings' = Append(mappings,
                                          MappingOf(s1_granule_ids[idx], rtc_entries))
                    /\ exhausted' = Append(exhausted, IsRequestException(resp.kind))
                    /\ sleeps' = Append(sleeps, SleepMs)
                    /\ idx' = idx + 1
                    /\ rpc' = "next"
                    /\ UNCHANGED attempt
    /\ UNCHANGED <<s1_granule_ids, rtc_requests>>
    /\ UNCHANGED <<qvars, mvars, lvars, svars, dvars, pvars, gvars, cvars>>

\* Lines 207-211: the list is returned.
RtcReturn ==
    /\ rpc = "next"
    /\ idx > Len(s1_granule_ids)
    /\ rpc' = "done"
    /\ UNCHANGED <<s1_granule_ids, idx, attempt, rtc_requests, rtc_responses,
                   sleeps, exhausted, mappings>>
    /\ UNCHANGED <<qvars, mvars, lvars, svars, dvars, pvars, gvars, cvars>>

NextRtc == RtcParse \/ RtcSend \/ RtcReceive \/ RtcReturn

-----------------------------------------------------------------------------
(* map_inputs_to_output (duplicate_analysis)                                *)

\* Bound on the number of DSWx-HLS records given to map_inputs_to_output.
MaxOutputs == 3

\* HLS granule ids (the strings HLS_PATTERN matches in full).
I1 == "HLS.L30.T10SEG.2025001T185032.v2.0"
I2 == "HLS.S30.T10SEG.2025001T190001.v2.0"
I3 == "HLS.L30.T11SKA.2025001T185100.v2.0"
I4 == "HLS.S30.T56MQV.2025001T000729.v2.0"
HlsIds == {I1, I2, I3, I4}

\* An entry of a record's InputGranules: a path whose last component is a
\* stem followed by an ending.
File(dir, stem, ending) == [dir |-> dir, stem |-> stem, ending |-> ending]

\* HLS_SUFFIX: the endings re.sub removes.
HLS_SUFFIX == {".B02.tif", ".B03.tif", ".Fmask.tif"}
\* HLS_PATTERN.match on the last path component: the pattern is anchored at
\* the start only, so whatever follows the id is ignored.
HLS_PATTERN_match(component) ==
    IF component.stem \in HlsIds THEN Ok(component.stem) ELSE Raise("no match")

\* Lines 371-379: the first entry that matches decides; an empty list leaves
\* tmp unbound, a list without a match leaves it None.
RECURSIVE get_hls_granule_from_dswx_input_list(_)
get_hls_granule_from_dswx_input_list(dswx_input_list) ==
    IF dswx_input_list = << >> THEN Raise("UnboundLocalError")
    ELSE LET i == Head(dswx_input_list)
             stripped == IF i.ending \in HLS_SUFFIX
                         THEN [i EXCEPT !.ending = ""]
                         ELSE i
             tmp == HLS_PATTERN_match([stem |-> stripped.stem, ending |-> stripped.ending])
         IN  IF tmp.ok THEN tmp
             ELSE IF Len(dswx_input_list) = 1 THEN Raise("TypeError")
             ELSE get_hls_granule_from_dswx_input_list(Tail(dswx_input_list))

\* Granule ids are sequences of characters, so that splitting and slicing
\* act on them as on Python strings.
\* str.split(sep): the pieces between the separators, empty pieces kept.
split(s, sep) ==
    LET pos == {i \in 1..Len(s) : s[i] = sep}
        n == Cardinality(pos) + 1
        P(k) == IF k = 0 THEN 0
                ELSE IF k = n THEN Len(s) + 1
                ELSE CHOOSE p \in pos : Cardinality({q \in pos : q < p}) = k - 1
    IN  [k \in 1..n |-> SubSeq(s, P(k - 1) + 1, P(k) - 1)]

\* The substrings granule ids of the model are made of.
OPERA == <<"O", "P", "E", "R", "A">>
L3 == <<"L", "3">>
DSWx_HLS == <<"D", "S", "W", "x", "-", "H", "L", "S">>
T10SEG == <<"T", "1", "0", "S", "E", "G">>
T56MQV == <<"T", "5", "6", "M", "Q", "V">>
T11SKA == <<"T", "1", "1", "S", "K", "A">>
Sensed185032 == <<"2", "0", "2", "5", "0", "1", "0", "1", "T", "1", "8", "5", "0", "3", "2", "Z">>
Sensed190001 == <<"2", "0", "2", "5", "0", "1", "0", "1", "T", "1", "9", "0", "0", "0", "1", "Z">>
Sensed000729 == <<"2", "0", "2", "5", "0", "1", "0", "1", "T", "0", "0", "0", "7", "2", "9", "Z">>
Sensed185100 == <<"2", "0", "2", "5", "0", "1", "0", "1", "T", "1", "8", "5", "1", "0", "0", "Z">>
Produced0103 == <<"2", "0", "2", "5", "0", "1", "0", "3", "T", "0", "1", "0", "1", "0", "1", "Z">>
Produced0104 == <<"2", "0", "2", "5", "0", "1", "0", "4", "T", "0", "2", "0", "2", "0", "2", "Z">>
L8 == <<"L", "8">>
Res30 == <<"3", "0">>
V1_0 == <<"v", "1", ".", "0">>
unnamed == <<"u", "n", "n", "a", "m", "e", "d">>

\* str.join of the pieces with "_".
RECURSIVE JoinUnderscore(_)
JoinUnderscore(pieces) ==
    IF pieces = << >> THEN << >>
    ELSE IF Len(pieces) = 1 THEN Head(pieces)
    ELSE Head(pieces) \o <<"_">> \o JoinUnderscore(Tail(pieces))

\* The production times the model's DSWx ids carry, as fromisoformat reads
\* them (basic format, accepted from Python 3.11 on).
production_fromisoformat(s) ==
    CASE s = Produced0103 -> Ok(DateTimeV(3, 3661))
      [] s = Produced0104 -> Ok(DateTimeV(4, 7322))
      [] OTHER -> Raise("ValueError")

\* Lines 653-673: piece 3 names the product type, piece 6 of a DSWx-HLS id
\* is the production time; other product types give normalize(None) = None.
extract_production_datetime(granule_id) ==
    LET pieces == split(granule_id, "_")
    IN  IF Len(pieces) < 3 THEN Raise("IndexError")
        ELSE IF pieces[3] # DSWx_HLS THEN Ok(NoneV)
        ELSE IF Len(pieces) < 6 THEN Raise("IndexError")
        ELSE production_fromisoformat(pieces[6])

\* s[:n] and s[n:] of Python.
SliceTo(s, n) == SubSeq(s, 1, IF n < Len(s) THEN n ELSE Len(s))
SliceFrom(s, n) == IF n >= Len(s) THEN << >> ELSE SubSeq(s, n + 1, Len(s))

\* Lines 676-688: granule_id[:42] + granule_id[58:] for a DSWx-HLS id, the
\* 16 characters at which its production time stands; None for other types.
KeepProductionDatetime(granule_id) == Ok(granule_id)
remove_production_datetime_from_granule_id(granule_id) ==
    LET pieces == split(granule_id, "_")
    IN  IF Len(pieces) < 3 THEN Raise("IndexError")
        ELSE IF pieces[3] # DSWx_HLS THEN Ok(NoneV)
        ELSE Ok(SliceTo(granule_id, 42) \o SliceFrom(granule_id, 58))

DswxId(tile, sensing, production) ==
    JoinUnderscore(<<OPERA, L3, DSWx_HLS, tile, sensing, production, L8, Res30, V1_0>>)

DswxGranule(id, rev_date, inputs) ==
    [native_id |-> id, revision_date |-> rev_date, InputGranules |-> inputs]
HlsGranule(id, rev, rev_date, platform) ==
    [native_id |-> id, revision_id |-> rev, revision_date |-> rev_date,
     platform |-> platform]

\* The DSWx-HLS records of the model: A and B are two productions from I1,
\* C comes from I2, D from I4 (never among the inputs queried); E and F list
\* no HLS file, G has an id without fields.
dswxA == DswxGranule(DswxId(T10SEG, Sensed185032, Produced0103),
            "2025-01-03T02:00:00Z",
            <<File("s3://hls/", I1, ".B02.tif"), File("s3://hls/", I1, ".Fmask.tif")>>)
dswxB == DswxGranule(DswxId(T10SEG, Sensed185032, Produced0104),
            "2025-01-04T03:00:00Z",
            <<File("s3://dem/", "dem", ".vrt"), File("s3://hls/", I1, ".B03.tif")>>)
dswxC == DswxGranule(DswxId(T10SEG, Sensed190001, Produced0103),
            "2025-01-03T02:30:00Z",
            <<File("", I2, ".VZA.tif")>>)
dswxD == DswxGranule(DswxId(T56MQV, Sensed000729, Produced0103),
            "2025-01-03T04:00:00Z",
            <<File("s3://hls/", I4, ".B02.tif")>>)
dswxE == DswxGranule(DswxId(T11SKA, Sensed185100, Produced0103),
            "2025-01-03T05:00:00Z",
            <<File("s3://dem/", "dem", ".vrt")>>)
dswxF == DswxGranule(DswxId(T11SKA, Sensed185100, Produced0104),
            "2025-01-04T05:00:00Z", << >>)
dswxG == DswxGranule(unnamed, "2025-01-04T06:00:00Z",
            <<File("s3://hls/", I1, ".B02.tif")>>)
DswxPool == {dswxA, dswxB, dswxC, dswxD, dswxE, dswxF, dswxG}

\* The HLS records of the model; hl1b is I1 again, in a later revision.
hl1 == HlsGranule(I1, 1, "2025-01-02T00:00:00Z", "LANDSAT-8")
hl3 == HlsGranule(I3, 1, "2025-01-02T01:00:00Z", "LANDSAT-9")
hl1b == HlsGranule(I1, 2, "2025-01-02T09:00:00Z", "LANDSAT-8")
hs2 == HlsGranule(I2, 1, "2025-01-02T02:00:00Z", "SENTINEL-2A")
Hlsl30Lists == {<< >>, <<hl1>>, <<hl1, hl3>>, <<hl1, hl3, hl1b>>}
Hlss30Lists == {<< >>, <<hs2>>}

Range(seq) == {seq[i] : i \in 1..Len(seq)}

\* Line 420: the dict comprehension; a later record of the same native id
\* replaces an earlier one.
IndexOnlyFirstCollection(l30, s30) ==
    [k \in {x.native_id : x \in Range(l30)} |->
        l30[CHOOSE i \in 1..Len(l30) :
                /\ l30[i].native_id = k
                /\ \A j \in (i + 1)..Len(l30) : l30[j].native_id # k]]
hls_results_dict(l30, s30) ==
    LET all == l30 \o s30
    IN  [k \in {x.native_id : x \in Range(all)} |->
            all[CHOOSE i \in 1..Len(all) :
                    /\ all[i].native_id = k
                    /\ \A j \in (i + 1)..Len(all) : all[j].native_id # k]]

\* Line 439: np.unique(..., return_index=True, return_counts=True), read
\* into hls_counts_dict (line 440): per distinct value, the 0-based index of
\* its first occurrence and the number of its occurrences.
RECURSIVE CountIn(_, _)
CountIn(seq, x) ==
    IF seq = << >> THEN 0
    ELSE (IF Head(seq) = x THEN 1 ELSE 0) + CountIn(Tail(seq), x)

FirstIndex(seq, x) ==
    (CHOOSE i \in 1..Len(seq) : seq[i] = x /\ \A j \in 1..(i - 1) : seq[j] # x) - 1

hls_counts_dict(products) ==
    [p \in Range(products) |->
        [index |-> FirstIndex(products, p), count |-> CountIn(products, p)]]

\* Line 442: the DSWx_Granule_Count column.
Granule_Count_FromIndex(products) ==
    [i \in 1..Len(products) |-> hls_counts_dict(products)[products[i]].index]
Granule_Count(products) ==
    [i \in 1..Len(products) |-> hls_counts_dict(products)[products[i]].count]

\* Line 455: set(hls_results_dict.keys()) - set(dswx_mappings_df['InputProduct']).
OrphansAreAllInputs(keys, products) == keys
hls_orphans(keys, products) == keys \ Range(products)

\* Lines 457-466: the orphan table, one row per orphan (the rows' order is
\* that of a Python set, so the table is modelled as a set of rows).
hls_orphans_df(index, orphans) ==
    {[HLS_GranuleId |-> x,
      HLS_RevId |-> index[x].revision_id,
      HLS_RevDate |-> index[x].revision_date,
      HLS_Platform |-> index[x].platform] : x \in orphans}

\* Line 470: the chosen inputs that are not in the index, one per row.
MissingIsEveryChosen(index, products) == products
missing_hls_ids(index, products) ==
    SelectSeq(products, LAMBDA x : x \notin DOMAIN index)

\* Lines 420-478: the whole function.  The first comprehension that raises
\* ends the call: the chosen inputs (line 429) are computed for all records
\* before the production times (line 445).
map_inputs_to_output(dswx, l30, s30) ==
    LET n == Len(dswx)
        index == hls_results_dict(l30, s30)
        chosen == [i \in 1..n |-> get_hls_granule_from_dswx_input_list(dswx[i].InputGranules)]
        pdt == [i \in 1..n |-> extract_production_datetime(dswx[i].native_id)]
        nopdt == [i \in 1..n |-> remove_production_datetime_from_granule_id(dswx[i].native_id)]
        badChosen == {i \in 1..n : ~chosen[i].ok}
        badPdt == {i \in 1..n : ~pdt[i].ok}
        First(S) == CHOOSE i \in S : \A j \in S : i <= j
    IN  IF badChosen # {} THEN Raise(chosen[First(badChosen)].exc)
        ELSE IF badPdt # {} THEN Raise(pdt[First(badPdt)].exc)
        ELSE
        LET products == [i \in 1..n |-> chosen[i].value]
            counts == Granule_Count(products)
            found(i) == products[i] \in DOMAIN index
            orphans == hls_orphans(DOMAIN index, products)
        IN  [ok |-> TRUE,
             dswx_mappings_df |->
                [i \in 1..n |->
                    [DSWx_ID |-> dswx[i].native_id,
                     DSWx_RevDate |-> dswx[i].revision_date,
                     InputProduct |-> products[i],
                     InputRevId |->
                        IF found(i) THEN Some(index[products[i]].revision_id) ELSE NoneV,
                     InputRevDate |->
                        IF found(i) THEN Some(index[products[i]].revision_date) ELSE NoneV,
                     InputPlatform |->
                        IF found(i) THEN Some(index[products[i]].platform) ELSE NoneV,
                     DSWx_Granule_Count |-> counts[i],
                     DSWx_ProductionDateTime |-> pdt[i].value,
                     DSWx_ID_no_pdt |-> nopdt[i].value]],
             hls_orphans_df |-> hls_orphans_df(index, orphans),
             missing_hls_ids |-> missing_hls_ids(index, products)]

InitMap ==
    /\ mpc = "call"
    /\ dswx_hls_results \in UNION {[1..n -> DswxPool] : n \in 0..MaxOutputs}
    /\ hlsl30_results \in Hlsl30Lists
    /\ hlss30_results \in Hlss30Lists
    /\ mresult = NoneV

\* One call of map_inputs_to_output.
MapCall ==
    /\ mpc = "call"
    /\ mresult' = map_inputs_to_output(dswx_hls_results, hlsl30_results, hlss30_results)
    /\ mpc' = "done"
    /\ UNCHANGED <<dswx_hls_results, hlsl30_results, hlss30_results>>
    /\ UNCHANGED <<qvars, rvars, lvars, svars, dvars, pvars, gvars, cvars>>

NextMap == MapCall

IdleMap ==
    /\ mpc = "idle"
    /\ dswx_hls_results = << >>
    /\ hlsl30_results = << >>
    /\ hlss30_results = << >>
    /\ mresult = NoneV

-----------------------------------------------------------------------------
(* get_latest_input_granule (monitoring/latency_graph.py)                   *)

\* A file name or id is the sequence of its tokens, the separators "_" and
\* "." being tokens themselves:  "v2.0.tif" is <<"v2", ".", "0", ".", "tif">>.
MaxInputs == 3

\* `word in s` for the words the function looks for, each a token of the
\* names that contain it.
Contains(s, word) == \E i \in 1..Len(s) : s[i] = word

\* os.path.splitext(s)[0]: the name up to its last dot, unless that dot
\* leads the name.
splitext(s) ==
    LET dots == {i \in 1..Len(s) : s[i] = "."}
        last == CHOOSE i \in dots : \A j \in dots : j <= i
    IN  IF dots = {} THEN s
        ELSE IF \A j \in 1..(last - 1) : s[j] = "." THEN s
        ELSE SubSeq(s, 1, last - 1)

\* The order of Python strings on the end times that occur in the model
\* (the empty string first).
EndTimesAscending ==
    <<"20250408T191425", "20250506T114007Z", "20250506T143253",
      "20250506T204752Z", "2025111T001109", "2025121T071630">>
StrRank(field) ==
    IF field = << >> THEN 0
    ELSE CHOOSE k \in 1..Len(EndTimesAscending) : <<EndTimesAscending[k]>> = field
StrGreater(a, b) == StrRank(a) > StrRank(b)

ProdTypes == {"CSLC-S1", "RTC-S1", "DSWx-HLS", "DSWx-S1"}

LatestStart ==
    [ok |-> TRUE, latest_end_time |-> << >>, latest_gran_id |-> << >>,
     latest_begin_time |-> << >>, slc_add |-> << >>]

\* Lines 122-149: one pass of the loop body over gran; st is the loop's
\* state before it.  Field k of Python is field k + 1 here.
LatestStep(st, gran, ptype) ==
    LET us == split(gran, "_")
        ds == split(gran, ".")
        Update(end_time, begin_time, add) ==
            IF StrGreater(end_time, st.latest_end_time)
            THEN [ok |-> TRUE, latest_end_time |-> end_time, latest_gran_id |-> gran,
                  latest_begin_time |-> begin_time, slc_add |-> add]
            ELSE [st EXCEPT !.slc_add = add]
    IN  IF ptype \in {"CSLC-S1", "RTC-S1"}
        THEN IF Len(us) < 6 THEN st
             ELSE IF Len(us) < 7 THEN Raise("IndexError")
             ELSE Update(us[7], us[6], <<"-SLC">>)
        ELSE IF ptype = "DSWx-HLS"
        THEN IF Len(ds) < 6 THEN st
             ELSE IF ~Contains(gran, "HLS") THEN st
             ELSE Update(ds[4], ds[4], st.slc_add)
        ELSE IF Len(us) < 5 THEN st
             ELSE IF Len(us) < 6 THEN Raise("IndexError")
             ELSE Update(us[6], us[5], st.slc_add)

RECURSIVE LatestLoop(_, _, _)
LatestLoop(st, input_list, ptype) ==
    IF input_list = << >> \/ ~st.ok THEN st
    ELSE LatestLoop(LatestStep(st, Head(input_list), ptype), Tail(input_list), ptype)

\* Lines 118-156: the loop, then the extension(s) are cut off the chosen
\* name and "-SLC" is appended to an SLC id.
get_latest_input_granule(input_list, ptype) ==
    LET st == LatestLoop(LatestStart, input_list, ptype)
        id0 == st.latest_gran_id
        id1 == IF Contains(id0, ".")
               THEN IF Contains(splitext(id0), "HLS")
                    THEN splitext(splitext(id0))
                    ELSE splitext(id0)
               ELSE id0
        id2 == IF Contains(id1, "SLC") THEN id1 \o st.slc_add ELSE id1
    IN  IF ~st.ok THEN st
        ELSE [ok |-> TRUE, latest_gran_id |-> id2,
              latest_end_time |-> st.latest_end_time,
              latest_begin_time |-> st.latest_begin_time]

\* The tokens of the name made of words joined by sep.
RECURSIVE Tokens(_, _)
Tokens(words, sep) ==
    IF Len(words) <= 1 THEN words
    ELSE <<Head(words), sep>> \o Tokens(Tail(words), sep)

\* The input names of the model.  HLS files: two bands of one granule, a
\* granule of another tile sensed at the same time, an earlier granule, a
\* later file that is no HLS file, and two names with too few fields.
HlsFile(kind, tile, time, band) ==
    Tokens(<<"HLS", kind, tile, time, "v2", "0", band, "tif">>, ".")
hlsB02 == HlsFile("L30", "T41WPU", "2025121T071630", "B02")
hlsB03 == HlsFile("L30", "T41WPU", "2025121T071630", "B03")
hlsOtherTile == HlsFile("L30", "T41WPV", "2025121T071630", "B02")
hlsEarlier == HlsFile("S30", "T55HFC", "2025111T001109", "Fmask")
demFile == Tokens(<<"DEM", "L30", "T41WPU", "2025121T071630", "v2", "0", "tif">>, ".")
hlsShort == Tokens(<<"HLS", "L30", "T41WPU">>, ".")
\* RTC-S1 files: two files of one burst, a burst produced later, an id cut
\* after its sensing time, an id cut after its product type.
RtcFile(burst, sensing, production, ending) ==
    Tokens(<<"OPERA", "L2", "RTC-S1", burst, sensing, production, "S1A", "30", "v1">>, "_")
        \o ending
rtcH5 == RtcFile("T018-038556-IW3", "20250505T233312Z", "20250506T114007Z",
                 <<".", "0", ".", "h5">>)
rtcVH == RtcFile("T018-038556-IW3", "20250505T233312Z", "20250506T114007Z",
                 <<".", "0", "_", "VH", ".", "tif">>)
rtcLater == RtcFile("T018-038572-IW1", "20250505T233354Z", "20250506T204752Z",
                    <<".", "0", ".", "h5">>)
rtcNoProduction == Tokens(<<"OPERA", "L2", "RTC-S1", "T018-038556-IW3", "20250505T233312Z">>, "_")
rtcShort == Tokens(<<"OPERA", "L2", "RTC-S1">>, "_")
\* SLC ids: two ids, an id cut after its begin time, an id cut after its mode.
SlcId(begin, end, orbit) ==
    Tokens(<<"S1A", "IW", "SLC", "", "1SDV", begin, end, orbit, "0743B7", "0ADC">>, "_")
slcApril == SlcId("20250408T191358", "20250408T191425", "058669")
slcMay == SlcId("20250506T143226", "20250506T143253", "059075")
slcNoEnd == Tokens(<<"S1A", "IW", "SLC", "", "1SDV", "20250408T191358">>, "_")
slcShort == Tokens(<<"S1A", "IW", "SLC">>, "_")

InputPool(ptype) ==
    CASE ptype = "DSWx-HLS" ->
            {hlsB02, hlsB03, hlsOtherTile, hlsEarlier, demFile, hlsShort}
      [] ptype = "DSWx-S1" ->
            {rtcH5, rtcVH, rtcLater, rtcNoProduction, rtcShort}
      [] OTHER -> {slcApril, slcMay, slcNoEnd, slcShort}

InitLatest ==
    /\ lpc = "call"
    /\ prod_type \in ProdTypes
    /\ input_gran_list \in UNION {[1..n -> InputPool(prod_type)] : n \in 0..MaxInputs}
    /\ latest = NoneV

\* One call of get_latest_input_granule.
LatestCall ==
    /\ lpc = "call"
    /\ latest' = get_latest_input_granule(input_gran_list, prod_type)
    /\ lpc' = "done"
    /\ UNCHANGED <<input_gran_list, prod_type>>
    /\ UNCHANGED <<qvars, rvars, mvars, svars, dvars, pvars, gvars, cvars>>

NextLatest == LatestCall

IdleLatest ==
    /\ lpc = "idle"
    /\ input_gran_list = << >>
    /\ prod_type = "None"
    /\ latest = NoneV

-----------------------------------------------------------------------------
(* remove_trailing_zeros_and_last_entry, get_statistics                     *)
(* (monitoring/opera_daily_products_query.py)                               *)

MaxDays == 4
MaxCount == 2

\* lst[::-1]
Reversed(lst) == [i \in 1..Len(lst) |-> lst[Len(lst) + 1 - i]]

\* Lines 63-88: the first nonzero entry of the reversed list and what
\* precedes it are cut off; the for loop's else branch returns [].
TrimNothing(lst) == lst
remove_trailing_zeros_and_last_entry(lst) ==
    LET reversed_list == Reversed(lst)
        nonzero == {i \in 1..Len(reversed_list) : reversed_list[i] # 0}
    IN  IF nonzero = {} THEN << >>
        ELSE LET i == CHOOSE k \in nonzero : \A j \in nonzero : k <= j
                 new_list == SubSeq(reversed_list, i + 1, Len(reversed_list))
             IN  Reversed(new_list)

\* Python numbers: the int 0 of line 117, and the floats of lines 121-123,
\* a float being num/den + k * sqrt(var_num/var_den) (not reduced).
IntV(n) == [kind |-> "int", value |-> n]
FloatV(num, den, k, var_num, var_den) ==
    [kind |-> "float", num |-> num, den |-> den, k |-> k,
     var_num |-> var_num, var_den |-> var_den]

RECURSIVE Sum(_)
Sum(seq) == IF seq = << >> THEN 0 ELSE Head(seq) + Sum(Tail(seq))
Squares(seq) == [i \in 1..Len(seq) |-> seq[i] * seq[i]]

sigma_multiplier == 2

\* Lines 97-125: the sample without its partial tail; mean and sigma bounds
\* are 0 for an empty sample, else arr.mean() and mean -/+ multiplier *
\* arr.std(), the population standard deviation.
StatisticsWithoutEmptyCheck(values) ==
    LET sample == remove_trailing_zeros_and_last_entry(values)
        n == Len(sample)
        var_num == n * Sum(Squares(sample)) - Sum(sample) * Sum(sample)
    IN  [sample |-> sample,
         mean |-> FloatV(Sum(sample), n, 0, 0, 1),
         std_sigma |-> <<FloatV(Sum(sample), n, 0 - sigma_multiplier, var_num, n * n),
                         FloatV(Sum(sample), n, sigma_multiplier, var_num, n * n)>>]
get_statistics(values) ==
    LET sample == remove_trailing_zeros_and_last_entry(values)
        n == Len(sample)
        var_num == n * Sum(Squares(sample)) - Sum(sample) * Sum(sample)
    IN  IF sample = << >>
        THEN [sample |-> sample, mean |-> IntV(0), std_sigma |-> <<IntV(0), IntV(0)>>]
        ELSE [sample |-> sample,
              mean |-> FloatV(Sum(sample), n, 0, 0, 1),
              std_sigma |-> <<FloatV(Sum(sample), n, 0 - sigma_multiplier, var_num, n * n),
                              FloatV(Sum(sample), n, sigma_multiplier, var_num, n * n)>>]

InitStats ==
    /\ spc = "call"
    /\ sample_values \in UNION {[1..n -> 0..MaxCount] : n \in 0..MaxDays}
    /\ trimmed = NoneV
    /\ stat = NoneV

\* A call of remove_trailing_zeros_and_last_entry(sample_values).
TrimCall ==
    /\ spc = "call"
    /\ trimmed' = Ok(remove_trailing_zeros_and_last_entry(sample_values))
    /\ spc' = "done"
    /\ UNCHANGED <<sample_values, stat>>
    /\ UNCHANGED <<qvars, rvars, mvars, lvars, dvars, pvars, gvars, cvars>>

\* A call of get_statistics(sample_values, collection).
StatisticsCall ==
    /\ spc = "call"
    /\ stat' = get_statistics(sample_values)
    /\ spc' = "done"
    /\ UNCHANGED <<sample_values, trimmed>>
    /\ UNCHANGED <<qvars, rvars, mvars, lvars, dvars, pvars, gvars, cvars>>

NextStats == TrimCall \/ StatisticsCall

IdleStats ==
    /\ spc = "idle"
    /\ sample_values = << >>
    /\ trimmed = NoneV
    /\ stat = NoneV

-----------------------------------------------------------------------------
(* normalize_to_datetime, get_dates_between (duplicate_analysis)            *)

MaxDay == 3

\* The values the two functions are called with: None, dates, datetimes at
\* midnight and at 06:00, ISO-8601 strings, a string that is no date, and a
\* number.
TemporalValues ==
    {NoneV}
    \cup {DateV(d) : d \in 1..MaxDay}
    \cup {DateTimeV(d, t) : d \in 1..MaxDay, t \in {MidnightTod, 21600}}
    \cup {StrV(s) : s \in {"2025-01-01", "2025-01-01T06:00:00",
                          "2025-01-02T00:00:00", "not-a-date"}}
    \cup {IntV(12345)}

\* current_date <= end_date, and current_date + timedelta(days=1).
DatetimeLeq(a, b) == a.day < b.day \/ (a.day = b.day /\ a.tod <= b.tod)
PlusOneDay(dt) == DateTimeV(dt.day + 1, dt.tod)

\* Lines 568-572: the while loop.
RECURSIVE DateListFrom(_, _)
DateListFrom(current_date, end_date) ==
    IF DatetimeLeq(current_date, end_date)
    THEN <<current_date>> \o DateListFrom(PlusOneDay(current_date), end_date)
    ELSE << >>

\* Lines 543-573: the decorators normalize start, then end; the body
\* normalizes both again; comparing with None raises TypeError.
DatesAlwaysEmpty(start, end) == Ok(<< >>)
get_dates_between(start, end) ==
    LET s1 == normalize_to_datetime(start)
        e1 == normalize_to_datetime(end)
    IN  IF ~s1.ok THEN s1
        ELSE IF ~e1.ok THEN e1
        ELSE LET start_date == normalize_to_datetime(s1.value)
                 end_date == normalize_to_datetime(e1.value)
             IN  IF ~start_date.ok THEN start_date
                 ELSE IF ~end_date.ok THEN end_date
                 ELSE IF start_date.value = NoneV \/ end_date.value = NoneV
                 THEN Raise("TypeError")
                 ELSE Ok(DateListFrom(start_date.value, end_date.value))

InitDates ==
    /\ dpc = "call"
    /\ norm_value \in TemporalValues
    /\ range_start \in TemporalValues
    /\ range_end \in TemporalValues
    /\ normalized = NoneV
    /\ renormalized = NoneV
    /\ date_list = NoneV

\* A call of normalize_to_datetime(norm_value).
NormalizeCall ==
    /\ dpc = "call"
    /\ normalized' = normalize_to_datetime(norm_value)
    /\ dpc' = "normalized"
    /\ UNCHANGED <<norm_value, renormalized, range_start, range_end, date_list>>
    /\ UNCHANGED <<qvars, rvars, mvars, lvars, svars, pvars, gvars, cvars>>

\* A call of normalize_to_datetime on what the first call returned.
NormalizeAgain ==
    /\ dpc = "normalized"
    /\ normalized.ok
    /\ renormalized' = normalize_to_datetime(normalized.value)
    /\ dpc' = "done"
    /\ UNCHANGED <<norm_value, normalized, range_start, range_end, date_list>>
    /\ UNCHANGED <<qvars, rvars, mvars, lvars, svars, pvars, gvars, cvars>>

\* A call of get_dates_between(range_start, range_end).
DatesCall ==
    /\ dpc = "call"
    /\ date_list' = get_dates_between(range_start, range_end)
    /\ dpc' = "done"
    /\ UNCHANGED <<norm_value, normalized, renormalized, range_start, range_end>>
    /\ UNCHANGED <<qvars, rvars, mvars, lvars, svars, pvars, gvars, cvars>>

NextDates == NormalizeCall \/ NormalizeAgain \/ DatesCall

IdleDates ==
    /\ dpc = "idle"
    /\ norm_value = NoneV
    /\ range_start = NoneV
    /\ range_end = NoneV
    /\ normalized = NoneV
    /\ renormalized = NoneV
    /\ date_list = NoneV

-----------------------------------------------------------------------------
(* parse_input_granules (monitoring/latency_graph.py)                       *)

MaxBatches == 2

\* Lines 172-186, string_to_datetime without gran_input, on the timestamps
\* of the model: a fraction of a second is cut off before strptime; the
\* datetime is given in seconds after 2025-05-06T00:00:00.
string_to_datetime(date_str) ==
    CASE date_str = "2025-05-06T00:00:00Z" -> 0
      [] date_str = "2025-05-06T12:00:00.000Z" -> 43200
      [] date_str = "2025-05-07T00:00:00Z" -> 86400
      [] date_str = "2025-05-08T00:00:00.621Z" -> 172800

\* Lines 189-207: the three differences.  A difference is kept in seconds:
\* the division by 60 * 60 * 24 that makes it a float of days changes
\* neither its sign nor the order of two differences.
compute_granule_latency(out_revision, inp_temporal, inp_revision) ==
    LET o == string_to_datetime(out_revision)
        t == string_to_datetime(inp_temporal)
        r == string_to_datetime(inp_revision)
    IN  [output_inp_revision_diff |-> o - r,
         output_inp_temporal_diff |-> o - t,
         inp_revision_inp_temporal_diff |-> r - t]

Metrics ==
    <<"output_inp_revision_diff", "output_inp_temporal_diff",
      "inp_revision_inp_temporal_diff">>

\* A key a dict does not have.
NoKey == [kind |-> "no key"]

\* Lines 282-298: the dicts before the loop.
TimeTakenStart == [k \in Range(Metrics) |-> << >>]
TrackingStart ==
    [k \in Range(Metrics) |->
        [mode |-> 0, input_granule |-> NoKey, output_revision_date |-> NoKey]]

\* An input granule as the loop reads it (lines 308, 314-315); a batch is the
\* list of items that json.loads gives for it (lines 304-305).
InputGranule(id, revision_date, ending) ==
    [native_id |-> id, revision_date |-> revision_date, EndingDateTime |-> ending]

\* Lines 319-338: the body of the inner loop for one granule and one output
\* revision date.
TrackIfLarger(mode, delta) == delta > mode
LatencyStep(st, granule, output_revision_date) ==
    LET d == compute_granule_latency(output_revision_date, granule.EndingDateTime,
                                     granule.revision_date)
    IN  [time_taken |-> [k \in Range(Metrics) |-> Append(st.time_taken[k], d[k])],
         tracking |->
            [k \in Range(Metrics) |->
                IF TrackIfLarger(st.tracking[k].mode, d[k])
                THEN [mode |-> d[k], input_granule |-> StrV(granule.native_id),
                      output_revision_date |-> StrV(output_revision_date)]
                ELSE st.tracking[k]]]

RECURSIVE RevisionsLoop(_, _, _)
RevisionsLoop(st, granule, revision_dates) ==
    IF revision_dates = << >> THEN st
    ELSE RevisionsLoop(LatencyStep(st, granule, Head(revision_dates)), granule,
                       Tail(revision_dates))

\* Lines 307-338: one granule; it is skipped when its id is no key of the
\* dict (line 309).
SkipEveryGranule(revision_dict, gran_id) == TRUE
NotAmongInputs(revision_dict, gran_id) == gran_id \notin DOMAIN revision_dict
RECURSIVE GranulesLoop(_, _, _)
GranulesLoop(st, granules_seq, revision_dict) ==
    IF granules_seq = << >> THEN st
    ELSE LET granule == Head(granules_seq)
             next == IF NotAmongInputs(revision_dict, granule.native_id) THEN st
                     ELSE RevisionsLoop(st, granule, revision_dict[granule.native_id])
         IN  GranulesLoop(next, Tail(granules_seq), revision_dict)

\* Lines 302-338: the batches in order.
RECURSIVE BatchesLoop(_, _, _)
BatchesLoop(st, batches, revision_dict) ==
    IF batches = << >> THEN st
    ELSE BatchesLoop(GranulesLoop(st, Head(batches), revision_dict), Tail(batches),
                     revision_dict)

\* Sample data: three input granules of the catalog; the second one was
\* revised before its sensing ended, so that all three of its differences
\* can be negative or zero.
hlsL30 == "HLS.L30.T41WPU.2025121T071630.v2.0"
hlsS30 == "HLS.S30.T41WPU.2025122T071630.v2.0"
hlsUnused == "HLS.S30.T10SEG.2025122T185100.v2.0"
inpL30 == InputGranule(hlsL30, "2025-05-07T00:00:00Z", "2025-05-06T12:00:00.000Z")
inpS30 == InputGranule(hlsS30, "2025-05-07T00:00:00Z", "2025-05-08T00:00:00.621Z")
inpUnused == InputGranule(hlsUnused, "2025-05-07T00:00:00Z", "2025-05-06T00:00:00Z")
BatchPool ==
    {<< >>, <<inpL30>>, <<inpUnused, inpS30>>, <<inpL30, inpS30>>, <<inpUnused>>}
RevisionLists ==
    {<<"2025-05-08T00:00:00.621Z">>,
     <<"2025-05-07T00:00:00Z", "2025-05-08T00:00:00.621Z">>,
     <<"2025-05-06T00:00:00Z">>}

RECURSIVE SeqsUpTo(_, _)
SeqsUpTo(S, n) ==
    IF n = 0 THEN {<< >>}
    ELSE LET shorter == SeqsUpTo(S, n - 1)
         IN  shorter \cup {Append(q, x) : q \in shorter, x \in S}

InitParse ==
    /\ ppc = "loop"
    /\ gran_batch_result \in SeqsUpTo(BatchPool, MaxBatches)
    /\ \E keys \in SUBSET {hlsL30, hlsS30} :
          inputgran_output_revision_dict \in [keys -> RevisionLists]
    /\ time_taken_dict = TimeTakenStart
    /\ tracking_dict = TrackingStart
    /\ parse_outcome = "running"

\* Lines 300-338: the loops over the batches.
ParseLoop ==
    /\ ppc = "loop"
    /\ LET st == BatchesLoop([time_taken |-> time_taken_dict, tracking |-> tracking_dict],
                             gran_batch_result, inputgran_output_revision_dict)
       IN  /\ time_taken_dict' = st.time_taken
           /\ tracking_dict' = st.tracking
    /\ ppc' = "report"
    /\ UNCHANGED <<gran_batch_result, inputgran_output_revision_dict, parse_outcome>>
    /\ UNCHANGED <<qvars, rvars, mvars, lvars, svars, dvars, gvars, cvars>>

\* Lines 340-346: the report reads three keys of every metric's entry; the
\* last two exist only after a difference greater than the starting mode.
ParseReport ==
    /\ ppc = "report"
    /\ parse_outcome' =
          IF \E i \in 1..Len(Metrics) :
                \/ tracking_dict[Metrics[i]].output_revision_date = NoKey
                \/ tracking_dict[Metrics[i]].input_granule = NoKey
          THEN "KeyError" ELSE "returned"
    /\ ppc' = "done"
    /\ UNCHANGED <<gran_batch_result, inputgran_output_revision_dict,
                   time_taken_dict, tracking_dict>>
    /\ UNCHANGED <<qvars, rvars, mvars, lvars, svars, dvars, gvars, cvars>>

NextParse == ParseLoop \/ ParseReport

IdleParse ==
    /\ ppc = "idle"
    /\ gran_batch_result = << >>
    /\ inputgran_output_revision_dict = << >>
    /\ time_taken_dict = TimeTakenStart
    /\ tracking_dict = TrackingStart
    /\ parse_outcome = "idle"

-----------------------------------------------------------------------------
(* process_dswx_by_sensing_date_range (duplicate_analysis)                  *)

\* Bounds on the last day of the range and on the runs over one directory.
MaxRangeDay == 2
MaxRuns == 2

\* Lines 614-616: the names of the three files of a date.
OneDupesFileForAll(date) == [prefix |-> "dswx_dupes_", day |-> 1, ext |-> ".csv"]
dupes_fname(date) == [prefix |-> "dswx_dupes_", day |-> date.day, ext |-> ".csv"]
orphan_fname(date) == [prefix |-> "hls_orphans_", day |-> date.day, ext |-> ".csv"]
missing_fname(date) == [prefix |-> "missing_hls_ids_", day |-> date.day, ext |-> ".txt"]
FileNames ==
    UNION {{dupes_fname(DateV(d)), orphan_fname(DateV(d)), missing_fname(DateV(d))} :
              d \in 1..MaxRangeDay}

\* A file is absent, written to its end, or cut short by a failed write.
AbsentFile == [state |-> "absent"]
WrittenFile(content) == [state |-> "complete", content |-> content]
PartialFile == [state |-> "partial"]
\* os.path.isfile
isfile(dir, fname) == dir[fname] # AbsentFile

\* What process_dswx_by_sensing_date returns for a date when its queries
\* succeed (line 539): the mapping, the orphans, the missing ids.
DayResult(date) ==
    [df |-> <<"df", date.day>>, orphans |-> <<"orphans", date.day>>,
     missing_hls_ids |-> <<"missing", date.day>>]

\* Lines 618-621: the resume test looks at the mapping file only.
SkipDate(resume, dir, date) == resume /\ isfile(dir, dupes_fname(date))

\* Line 650: a bare return.
ReturnValue(last) == NoneV

InitRange ==
    /\ gpc = "call"
    /\ range_args \in [date_from : {DateV(1)},
                       date_to : {DateV(d) : d \in 1..MaxRangeDay},
                       resume : BOOLEAN]
    /\ dates_list = << >>
    /\ date_idx = 1
    /\ output_files = [f \in FileNames |-> AbsentFile]
    /\ called_dates = << >>
    /\ skipped_dates = << >>
    /\ day_result = NoneV
    /\ range_return = NoneV
    /\ run_count = 0

\* Lines 609-611: the dates of the range.
RangeCall ==
    /\ gpc = "call"
    /\ dates_list' = get_dates_between(range_args.date_from, range_args.date_to).value
    /\ date_idx' = 1
    /\ gpc' = "date"
    /\ UNCHANGED <<range_args, output_files, called_dates, skipped_dates, day_result,
                   range_return, run_count>>
    /\ UNCHANGED <<qvars, rvars, mvars, lvars, svars, dvars, pvars, cvars>>

\* Lines 613-625 and 646-648: the next date is skipped, or
\* process_dswx_by_sensing_date is called for it; the call returns the
\* date's results or raises (a failed query), and the except branch then
\* goes on to the next date.
RangeDate ==
    /\ gpc = "date"
    /\ date_idx <= Len(dates_list)
    /\ LET date == dates_list[date_idx]
       IN  IF SkipDate(range_args.resume, output_files, date)
           THEN /\ skipped_dates' = Append(skipped_dates, date)
                /\ date_idx' = date_idx + 1
                /\ UNCHANGED <<gpc, called_dates, day_result>>
           ELSE /\ called_dates' = Append(called_dates, date)
                /\ UNCHANGED skipped_dates
                /\ \E raised \in BOOLEAN :
                      IF raised
                      THEN /\ date_idx' = date_idx + 1
                           /\ UNCHANGED <<gpc, day_result>>
                      ELSE /\ day_result' = Some(DayResult(date))
                           /\ gpc' = "write_dupes"
                           /\ UNCHANGED date_idx
    /\ UNCHANGED <<range_args, dates_list, output_files, range_return, run_count>>
    /\ UNCHANGED <<qvars, rvars, mvars, lvars, svars, dvars, pvars, cvars>>

\* Lines 630-644 and 646-648: one of the three writes.  It writes the file
\* to its end, or raises before the file is opened, or raises after the
\* file was opened for writing; a raise ends the work on the date.
WriteNames == {"write_dupes", "write_orphans", "write_missing"}
RangeWrite ==
    /\ gpc \in WriteNames
    /\ LET date == dates_list[date_idx]
           fname == CASE gpc = "write_dupes" -> dupes_fname(date)
                      [] gpc = "write_orphans" -> orphan_fname(date)
                      [] OTHER -> missing_fname(date)
           content == CASE gpc = "write_dupes" -> day_result.value.df
                        [] gpc = "write_orphans" -> day_result.value.orphans
                        [] OTHER -> day_result.value.missing_hls_ids
       IN  \E written \in {"complete", "not opened", "partial"} :
              /\ output_files' =
                    CASE written = "complete" ->
                            [output_files EXCEPT ![fname] = WrittenFile(content)]
                      [] written = "partial" ->
                            [output_files EXCEPT ![fname] = PartialFile]
                      [] OTHER -> output_files
              /\ IF written = "complete" /\ gpc # "write_missing"
                 THEN /\ gpc' = IF gpc = "write_dupes" THEN "write_orphans"
                                ELSE "write_missing"
                      /\ UNCHANGED date_idx
                 ELSE /\ gpc' = "date"
                      /\ date_idx' = date_idx + 1
    /\ UNCHANGED <<range_args, dates_list, called_dates, skipped_dates, day_result,
                   range_return, run_count>>
    /\ UNCHANGED <<qvars, rvars, mvars, lvars, svars, dvars, pvars, cvars>>

\* Line 650: the loop is over and the run returns.
RangeReturn ==
    /\ gpc = "date"
    /\ date_idx > Len(dates_list)
    /\ range_return' = ReturnValue(day_result)
    /\ run_count' = run_count + 1
    /\ gpc' = "done"
    /\ UNCHANGED <<range_args, dates_list, date_idx, output_files, called_dates,
                   skipped_dates, day_result>>
    /\ UNCHANGED <<qvars, rvars, mvars, lvars, svars, dvars, pvars, cvars>>

\* The tool is run again, with the same arguments, over the same directory.
RangeRerun ==
    /\ gpc = "done"
    /\ run_count < MaxRuns
    /\ gpc' = "call"
    /\ dates_list' = << >>
    /\ date_idx' = 1
    /\ called_dates' = << >>
    /\ skipped_dates' = << >>
    /\ day_result' = NoneV
    /\ range_return' = NoneV
    /\ UNCHANGED <<range_args, output_files, run_count>>
    /\ UNCHANGED <<qvars, rvars, mvars, lvars, svars, dvars, pvars, cvars>>

NextRange == RangeCall \/ RangeDate \/ RangeWrite \/ RangeReturn \/ RangeRerun

IdleRange ==
    /\ gpc = "idle"
    /\ range_args = NoneV
    /\ dates_list = << >>
    /\ date_idx = 1
    /\ output_files = << >>
    /\ called_dates = << >>
    /\ skipped_dates = << >>
    /\ day_result = NoneV
    /\ range_return = NoneV
    /\ run_count = 0

-----------------------------------------------------------------------------
(* compare_against_riley_results (duplicate_analysis)                       *)

\* Bound on the rows of the mapping file.
MaxRows == 3

\* The ids of the comparison; the output ids in the order of Python's
\* string comparison.
CompareInputs == {"HLS.L30.T10SEG", "HLS.S30.T10SEG"}
CompareOutputsAscending == <<"OPERA_L3_DSWx-HLS_T10SEG_1", "OPERA_L3_DSWx-HLS_T10SEG_2">>
OutputRank(id) ==
    CHOOSE k \in 1..Len(CompareOutputsAscending) : CompareOutputsAscending[k] = id

\* sorted(ids): insertion sort.
RECURSIVE InsertSorted(_, _)
InsertSorted(id, sorted_ids) ==
    IF sorted_ids = << >> THEN <<id>>
    ELSE IF OutputRank(id) <= OutputRank(Head(sorted_ids)) THEN <<id>> \o sorted_ids
    ELSE <<Head(sorted_ids)>> \o InsertSorted(id, Tail(sorted_ids))
RECURSIVE sorted(_)
sorted(ids) ==
    IF ids = << >> THEN << >> ELSE InsertSorted(Head(ids), sorted(Tail(ids)))

\* The rows of dswx_dupes_<date>.csv that the comparison reads: the columns
\* InputProduct, DSWx_ID and DSWx_Granule_Count as map_inputs_to_output
\* wrote them (line 442: the count of the rows with the same InputProduct).
DupesRows(pairs) ==
    LET counts == Granule_Count([i \in 1..Len(pairs) |-> pairs[i][1]])
    IN  [i \in 1..Len(pairs) |->
            [InputProduct |-> pairs[i][1], DSWx_ID |-> pairs[i][2],
             DSWx_Granule_Count |-> counts[i]]]

\* Line 762: the entries of the reference with a non-empty list.
riley_dupes_for_date_nonempty(reference) == {k \in DOMAIN reference : reference[k] # << >>}

\* Line 767: set(dupes_df[dupes_df['DSWx_Granule_Count'] > 1]['InputProduct']).
InputsWithDuplicates(df) ==
    {df[i].InputProduct : i \in {j \in 1..Len(df) : df[j].DSWx_Granule_Count > 1}}

\* Line 773: list(dupes_df[dupes_df['InputProduct'] == k]['DSWx_ID']).
dswx_ids_mine(df, k) ==
    LET row_ids == [i \in 1..Len(df) |-> df[i]]
        Keep(row) == row.InputProduct = k
        kept == SelectSeq(row_ids, Keep)
    IN  [i \in 1..Len(kept) |-> kept[i].DSWx_ID]

\* Lines 748-779: the two sets are compared, then, when they are equal, the
\* sorted lists of every entry.
compare_against_riley_results(reference, df) ==
    /\ riley_dupes_for_date_nonempty(reference) = InputsWithDuplicates(df)
    /\ \A k \in riley_dupes_for_date_nonempty(reference) :
          sorted(reference[k]) = sorted(dswx_ids_mine(df, k))

ReferenceLists ==
    {<< >>, <<CompareOutputsAscending[1]>>,
     <<CompareOutputsAscending[2], CompareOutputsAscending[1]>>,
     <<CompareOutputsAscending[1], CompareOutputsAscending[1]>>}

InitCompare ==
    /\ cpc = "call"
    /\ \E keys \in SUBSET CompareInputs :
          riley_dupes_for_date \in [keys -> ReferenceLists]
    /\ \E pairs \in SeqsUpTo(CompareInputs \X Range(CompareOutputsAscending), MaxRows) :
          dupes_df = DupesRows(pairs)
    /\ compare_result = NoneV

\* One call of compare_against_riley_results.
CompareCall ==
    /\ cpc = "call"
    /\ compare_result' = compare_against_riley_results(riley_dupes_for_date, dupes_df)
    /\ cpc' = "done"
    /\ UNCHANGED <<riley_dupes_for_date, dupes_df>>
    /\ UNCHANGED <<qvars, rvars, mvars, lvars, svars, dvars, pvars, gvars>>

NextCompare == CompareCall

IdleCompare ==
    /\ cpc = "idle"
    /\ riley_dupes_for_date = << >>
    /\ dupes_df = << >>
    /\ compare_result = NoneV

InitSpecQuery ==
    InitQuery /\ IdleRtc /\ IdleMap /\ IdleLatest /\ IdleStats /\ IdleDates /\ IdleParse /\ IdleRange /\ IdleCompare
SpecQuery == InitSpecQuery /\ [][NextQuery]_vars

InitSpecRtc ==
    InitRtc /\ IdleQuery /\ IdleMap /\ IdleLatest /\ IdleStats /\ IdleDates /\ IdleParse /\ IdleRange /\ IdleCompare
SpecRtc == InitSpecRtc /\ [][NextRtc]_vars

InitSpecMap ==
    InitMap /\ IdleQuery /\ IdleRtc /\ IdleLatest /\ IdleStats /\ IdleDates /\ IdleParse /\ IdleRange /\ IdleCompare
SpecMap == InitSpecMap /\ [][NextMap]_vars

InitSpecLatest ==
    InitLatest /\ IdleQuery /\ IdleRtc /\ IdleMap /\ IdleStats /\ IdleDates /\ IdleParse /\ IdleRange /\ IdleCompare
SpecLatest == InitSpecLatest /\ [][NextLatest]_vars

InitSpecStats ==
    InitStats /\ IdleQuery /\ IdleRtc /\ IdleMap /\ IdleLatest /\ IdleDates /\ IdleParse /\ IdleRange /\ IdleCompare
SpecStats == InitSpecStats /\ [][NextStats]_vars

InitSpecDates ==
    InitDates /\ IdleQuery /\ IdleRtc /\ IdleMap /\ IdleLatest /\ IdleStats /\ IdleParse /\ IdleRange /\ IdleCompare
SpecDates == InitSpecDates /\ [][NextDates]_vars

InitSpecParse ==
    InitParse /\ IdleQuery /\ IdleRtc /\ IdleMap /\ IdleLatest /\ IdleStats /\ IdleDates /\ IdleRange /\ IdleCompare
SpecParse == InitSpecParse /\ [][NextParse]_vars

InitSpecRange ==
    InitRange /\ IdleQuery /\ IdleRtc /\ IdleMap /\ IdleLatest /\ IdleStats /\ IdleDates /\ IdleParse /\ IdleCompare
SpecRange == InitSpecRange /\ [][NextRange]_vars

InitSpecCompare ==
    InitCompare /\ IdleQuery /\ IdleRtc /\ IdleMap /\ IdleLatest /\ IdleStats /\ IdleDates /\ IdleParse /\ IdleRange
SpecCompare == InitSpecCompare /\ [][NextCompare]_vars

-----------------------------------------------------------------------------
(* Claims about query_cmr_for_products (SpecQuery)                          *)

RECURSIVE ConcatPages(_)
ConcatPages(resps) ==
    IF resps = << >> THEN << >>
    ELSE ConcatPages(SubSeq(resps, 1, Len(resps) - 1)) \o resps[Len(resps)].items

\* A response that ends the pagination: an empty page, or no cursor header.
EndsPagination(resp) ==
    resp.kind = "ok" /\ (resp.items = << >> \/ resp.cursor = NoCursor)
FullPage(resp) == resp.kind = "ok" /\ resp.items # << >>
LoopEnded == qpc = "finish" \/ (qpc = "done" /\ outcome \in {"returned", "TypeError"})

\* C1: the loop requests pages until the first response with an empty page
\* or without a cursor and issues no request after it; what it accumulated
\* is then the concatenation, in page order, of the pages received, and that
\* is the list returned (n full pages, the last one without cursor: exactly
\* n requests and the n pages' items in order).
C1_PaginationCollectsAllPages ==
    /\ \A i \in 1..Len(responses) :
          EndsPagination(responses[i]) => Len(requests) = i /\ LoopEnded
    /\ LoopEnded =>
          /\ Len(responses) >= 1
          /\ EndsPagination(responses[Len(responses)])
          /\ \A i \in 1..(Len(responses) - 1) : ~EndsPagination(responses[i])
          /\ Len(requests) = Len(responses)
          /\ results = ConcatPages(responses)
    /\ (outcome = "returned" /\ ~args.remove_landsat9) =>
          granules = ConcatPages(responses)

\* Three full pages with cursors c?, c?, none were fetched and returned.
C1_Witness ==
    /\ outcome = "returned"
    /\ ~args.remove_landsat9
    /\ Len(requests) = 3
    /\ \A i \in 1..3 : FullPage(responses[i])
    /\ responses[1].items # responses[2].items
    /\ granules = responses[1].items \o responses[2].items \o responses[3].items

\* C2: requests leave one at a time, each after the response to the one
\* before; the first carries no cursor, every later one the cursor of the
\* response just received; the parameters, page size and sort keys are the
\* same in all of them.
C2_CursorThreading ==
    /\ Len(requests) = Len(responses) + (IF qpc = "wait" THEN 1 ELSE 0)
    /\ \A i \in 1..Len(requests) :
          /\ requests[i].cursor = (IF i = 1 THEN NoCursor ELSE responses[i - 1].cursor)
          /\ i > 1 => requests[i].cursor # NoCursor
          /\ requests[i].params = query_params
          /\ requests[i].params.page_size = PageSize
          /\ requests[i].params.sort_key =
                <<"provider", "start_date", "producer_granule_id">>

\* A third request left, carrying a cursor other than the second one's.
C2_Witness ==
    /\ Len(requests) = 3
    /\ requests[2].cursor # requests[3].cursor
    /\ requests[3].cursor = responses[2].cursor

NoDatetimeGiven == \A a \in DatetimeArgs : args[a] = NoneV

RevisionOnly ==
    /\ args.sensor_datetime_from = NoneV
    /\ args.sensor_datetime_to = NoneV
    /\ args.revision_datetime_from # NoneV

\* C4: a query with a revision window and no sensing window is valid: its
\* requests carry the revision_date filter and, the catalog having answered
\* every request, the call returns the granules fetched.
C4_RevisionOnlyQueryReturns ==
    /\ RevisionOnly =>
          \A i \in 1..Len(requests) : requests[i].params.revision_date # << >>
    /\ (RevisionOnly /\ qpc = "done"
            /\ \A i \in 1..Len(responses) : responses[i].kind = "ok") =>
          outcome = "returned" /\ Len(granules) <= Len(ConcatPages(responses))

\* C5: no native_id occurs twice in the list returned.
C5_ReturnedIdsAreUnique ==
    outcome = "returned" =>
        \A i, j \in 1..Len(granules) :
            i # j => granules[i].native_id # granules[j].native_id

\* C6 (query_cmr_for_products): a request that met a transient failure is
\* issued again, unchanged.
C6_TransientFailureIsRetried ==
    \A i \in 1..Len(responses) :
        (responses[i].kind \in TransientKinds /\ qpc = "done") =>
            /\ i < Len(requests)
            /\ requests[i + 1] = requests[i]

\* Supporting fact for C8: in query_cmr_for_products any failure, 4xx
\* included, ends the call at once; no request follows it.
QueryFailureEndsCall ==
    \A i \in 1..Len(responses) :
        responses[i].kind # "ok" =>
            Len(requests) = i /\ qpc = "done" /\ outcome \in {"HTTPError", "ConnectionError"}

-----------------------------------------------------------------------------
(* Claims about S1ToRTCMapper (SpecRtc)                                     *)

\* Supporting fact for C6: in query_cmr_for_rtc a failed attempt is followed
\* by the same request, at most max_attempts requests are made per granule,
\* and no request follows a 2xx response.
RtcRetryIsBounded ==
    /\ Len(rtc_requests) <= max_attempts
    /\ \A i \in 1..Len(rtc_requests) : rtc_requests[i] = rtc_requests[1]
    /\ \A i \in 1..Len(rtc_responses) :
          /\ rtc_responses[i].kind = "ok" => Len(rtc_requests) = i
          /\ i < Len(rtc_requests) => IsRequestException(rtc_responses[i].kind)
    /\ \A i \in 1..Len(sleeps) : sleeps[i] = SleepMs

\* What map_granules records for a granule that has no RTC product.
NoProductMapping(granule_id) == MappingOf(granule_id, << >>)

\* C7: the mapping of a granule whose query ran out of attempts on failures
\* differs from the mapping of a granule that has no RTC product.
C7_ExhaustedQueryIsMarked ==
    \A i \in 1..Len(mappings) :
        exhausted[i] => mappings[i] # NoProductMapping(s1_granule_ids[i])

\* C8 (query_cmr_for_rtc): no request follows a 4xx response to the query
\* of a granule.
C8_FatalErrorNotRetried ==
    \A i \in 1..Len(rtc_responses) :
        rtc_responses[i].kind = "http_4xx" => Len(rtc_requests) = i

-----------------------------------------------------------------------------
(* Claims about map_inputs_to_output (SpecMap)                              *)

Mapped == mpc = "done" /\ mresult.ok
Rows == mresult.dswx_mappings_df
ChosenIds == {Rows[i].InputProduct : i \in 1..Len(Rows)}
IndexedIds == {x.native_id : x \in Range(hlsl30_results) \cup Range(hlss30_results)}
OrphanIds == {r.HLS_GranuleId : r \in mresult.hls_orphans_df}

\* C9: the mapping has one row per output record, in the records' order,
\* and the duplicate count of a row is the number of rows with the same
\* chosen input.
C9_DuplicateCounts ==
    Mapped =>
        /\ Len(Rows) = Len(dswx_hls_results)
        /\ \A i \in 1..Len(Rows) :
              /\ Rows[i].DSWx_ID = dswx_hls_results[i].native_id
              /\ Rows[i].DSWx_Granule_Count =
                    Cardinality({j \in 1..Len(Rows) :
                                    Rows[j].InputProduct = Rows[i].InputProduct})

\* Outputs A, B from I1 and C from I2 were mapped with counts 2, 2, 1.
C9_Witness ==
    /\ Mapped
    /\ dswx_hls_results = <<dswxA, dswxB, dswxC>>
    /\ Rows[1].InputProduct = I1 /\ Rows[2].InputProduct = I1
    /\ Rows[3].InputProduct = I2
    /\ Rows[1].DSWx_Granule_Count = 2
    /\ Rows[2].DSWx_Granule_Count = 2
    /\ Rows[3].DSWx_Granule_Count = 1

\* C10: the orphans are the indexed inputs that no row chose: no orphan is
\* a row's chosen input, every orphan is an input record's id, and every
\* input record's id is chosen by a row or listed as an orphan.
C10_Orphans ==
    Mapped =>
        /\ OrphanIds \cap ChosenIds = {}
        /\ OrphanIds \subseteq IndexedIds
        /\ \A x \in IndexedIds : x \in ChosenIds \/ x \in OrphanIds
        /\ Cardinality(mresult.hls_orphans_df) = Cardinality(OrphanIds)

\* Inputs I1, I2, I3 and outputs from I1 and I2: I3 is the one orphan.
C10_Witness ==
    /\ Mapped
    /\ dswx_hls_results = <<dswxA, dswxB, dswxC>>
    /\ IndexedIds = {I1, I2, I3}
    /\ OrphanIds = {I3}

MissingIds == Range(mresult.missing_hls_ids)

\* C11: a record whose chosen input is in no input collection does not make
\* the call raise; its row carries no input revision id, revision date or
\* platform, and its chosen input is in the missing list, once per such row.
\* Conversely the missing list holds no indexed id, and a row whose chosen
\* input is indexed carries that input's fields.
C11_MissingInputs ==
    /\ (mpc = "done" /\ ~mresult.ok) =>
          \E i \in 1..Len(dswx_hls_results) :
              ~get_hls_granule_from_dswx_input_list(dswx_hls_results[i].InputGranules).ok
              \/ ~extract_production_datetime(dswx_hls_results[i].native_id).ok
    /\ Mapped =>
          /\ \A i \in 1..Len(Rows) :
                IF Rows[i].InputProduct \in IndexedIds
                THEN /\ Rows[i].InputRevId # NoneV
                     /\ Rows[i].InputRevDate # NoneV
                     /\ Rows[i].InputPlatform # NoneV
                ELSE /\ Rows[i].InputRevId = NoneV
                     /\ Rows[i].InputRevDate = NoneV
                     /\ Rows[i].InputPlatform = NoneV
                     /\ Rows[i].InputProduct \in MissingIds
          /\ MissingIds \cap IndexedIds = {}
          /\ Len(mresult.missing_hls_ids) =
                Cardinality({i \in 1..Len(Rows) : Rows[i].InputProduct \notin IndexedIds})

\* Output D names I4, which no input collection holds; output A names I1,
\* which is indexed.
C11_Witness ==
    /\ Mapped
    /\ dswx_hls_results = <<dswxA, dswxD>>
    /\ hlsl30_results = <<hl1, hl3>>
    /\ Rows[2].InputProduct = I4
    /\ Rows[2].InputRevId = NoneV
    /\ Rows[1].InputRevId = Some(1)
    /\ mresult.missing_hls_ids = <<I4>>

InputRecords == Range(hlsl30_results) \cup Range(hlss30_results)

\* C12: a call without output records does not raise, whatever the input
\* collections hold (nothing included): the mapping has no row, the missing
\* list is empty, and the orphans are the ids of all input records, each
\* orphan row carrying the fields of an input record with that id.
C12_NoOutputs ==
    (mpc = "done" /\ dswx_hls_results = << >>) =>
        /\ mresult.ok
        /\ Rows = << >>
        /\ mresult.missing_hls_ids = << >>
        /\ OrphanIds = IndexedIds
        /\ \A r \in mresult.hls_orphans_df :
              \E x \in InputRecords :
                  /\ x.native_id = r.HLS_GranuleId
                  /\ x.revision_id = r.HLS_RevId
                  /\ x.revision_date = r.HLS_RevDate
                  /\ x.platform = r.HLS_Platform

\* No output record, inputs I1, I3 and I2: all three are orphans.
C12_Witness ==
    /\ mpc = "done"
    /\ dswx_hls_results = << >>
    /\ hlsl30_results = <<hl1, hl3>>
    /\ hlss30_results = <<hs2>>
    /\ mresult.ok
    /\ OrphanIds = {I1, I2, I3}
    /\ Rows = << >>

\* The same call with both input collections empty returns three empty
\* results.
C12_EmptyInputsReached ==
    /\ mpc = "done"
    /\ dswx_hls_results = << >>
    /\ InputRecords = {}
    /\ mresult.ok
    /\ mresult.hls_orphans_df = {}

\* A record the mapping can read: its input list names an HLS granule and
\* its own id carries a production time.
Parseable(rec) ==
    /\ get_hls_granule_from_dswx_input_list(rec.InputGranules).ok
    /\ extract_production_datetime(rec.native_id).ok

\* C13: a record that cannot be parsed never aborts the mapping: the call
\* returns, the rows are the records that can be read, in their order, and
\* no row belongs to a record that cannot.
C13_ParseFailureDoesNotAbort ==
    mpc = "done" =>
        /\ mresult.ok
        /\ \A i \in 1..Len(dswx_hls_results) :
              Parseable(dswx_hls_results[i]) =>
                  \E j \in 1..Len(Rows) : Rows[j].DSWx_ID = dswx_hls_results[i].native_id
        /\ Len(Rows) =
              Cardinality({i \in 1..Len(dswx_hls_results) : Parseable(dswx_hls_results[i])})

-----------------------------------------------------------------------------
(* Claims about get_latest_input_granule (SpecLatest)                       *)

\* The orders in which the entries of a list can be given.
PermutationsOf(seq) ==
    {[i \in 1..Len(seq) |-> seq[f[i]]] :
        f \in {g \in [1..Len(seq) -> 1..Len(seq)] :
                  \A i, j \in 1..Len(seq) : g[i] = g[j] => i = j}}

\* C14: the input chosen for an output does not depend on the order of the
\* output's input list: the call gives the same id and times for every
\* permutation of the list it was given.
C14_ChoiceIsOrderIndependent ==
    lpc = "done" =>
        \A p \in PermutationsOf(input_gran_list) :
            get_latest_input_granule(p, prod_type) = latest

-----------------------------------------------------------------------------
(* Claims about the production time of a DSWx-HLS id (SpecMap)              *)

\* Two DSWx-HLS ids whose pieces are the same except the production time.
DifferOnlyInProduction(a, b) ==
    LET pa == split(a, "_")
        pb == split(b, "_")
    IN  /\ Len(pa) = Len(pb) /\ Len(pa) >= 6
        /\ pa[3] = DSWx_HLS
        /\ pa[6] # pb[6]
        /\ \A k \in 1..Len(pa) : k # 6 => pa[k] = pb[k]

\* C15: for the ids of two rows that differ only in the production time,
\* the ids without production time are the same string, which has the
\* pieces of either id (tile and sensing time among them) with an empty
\* piece where the production time stood, and the production times
\* extracted are two different instants.
C15_ProductionTimeIsTheOnlyDifference ==
    Mapped =>
        \A i, j \in 1..Len(Rows) :
            DifferOnlyInProduction(Rows[i].DSWx_ID, Rows[j].DSWx_ID) =>
                /\ Rows[i].DSWx_ID_no_pdt = Rows[j].DSWx_ID_no_pdt
                /\ split(Rows[i].DSWx_ID_no_pdt, "_") =
                      [split(Rows[i].DSWx_ID, "_") EXCEPT ![6] = << >>]
                /\ Rows[i].DSWx_ProductionDateTime.kind = "datetime"
                /\ Rows[j].DSWx_ProductionDateTime.kind = "datetime"
                /\ Rows[i].DSWx_ProductionDateTime # Rows[j].DSWx_ProductionDateTime

\* Outputs A and B: same tile and sensing time, produced on two days.
C15_Witness ==
    /\ Mapped
    /\ dswx_hls_results = <<dswxA, dswxB>>
    /\ DifferOnlyInProduction(Rows[1].DSWx_ID, Rows[2].DSWx_ID)
    /\ Rows[1].DSWx_ID_no_pdt = Rows[2].DSWx_ID_no_pdt
    /\ Rows[1].DSWx_ID_no_pdt =
          JoinUnderscore(<<OPERA, L3, DSWx_HLS, T10SEG, Sensed185032, << >>, L8, Res30, V1_0>>)
    /\ Rows[1].DSWx_ProductionDateTime = DateTimeV(3, 3661)
    /\ Rows[2].DSWx_ProductionDateTime = DateTimeV(4, 7322)

-----------------------------------------------------------------------------
(* Claims about the daily product statistics (SpecStats)                    *)

\* The part of lst before its last nonzero entry; empty without such entry.
PrefixBeforeLastNonzero(lst) ==
    LET nonzero == {i \in 1..Len(lst) : lst[i] # 0}
    IN  IF nonzero = {} THEN << >>
        ELSE SubSeq(lst, 1, (CHOOSE k \in nonzero : \A j \in nonzero : j <= k) - 1)

\* C16: remove_trailing_zeros_and_last_entry returns the part of its
\* argument that precedes the last nonzero entry, the empty list when no
\* entry is nonzero, and leaves the argument as it was.
C16_TrimReturnsPrefix ==
    [][(spc = "call" /\ trimmed' # NoneV) =>
          /\ trimmed'.value = PrefixBeforeLastNonzero(sample_values)
          /\ sample_values' = sample_values]_vars

\* [1, 2, 0, 0] gave [1].
C16_Witness ==
    /\ spc = "done"
    /\ sample_values = <<1, 2, 0, 0>>
    /\ trimmed = Ok(<<1>>)

\* [0, 0, 0] gave [].
C16_AllZeroReached ==
    /\ spc = "done"
    /\ sample_values = <<0, 0, 0>>
    /\ trimmed = Ok(<< >>)

\* C17: get_statistics returns for every list; when nothing is left after
\* trimming it returns the empty sample, mean 0 and the bounds [0, 0], and
\* otherwise the trimmed sample with its mean and bounds as floats.
C17_EmptySampleStatistics ==
    (spc = "done" /\ stat # NoneV) =>
        /\ stat.sample = PrefixBeforeLastNonzero(sample_values)
        /\ IF stat.sample = << >>
           THEN stat.mean = IntV(0) /\ stat.std_sigma = <<IntV(0), IntV(0)>>
           ELSE /\ stat.mean.kind = "float"
                /\ stat.mean.den = Len(stat.sample)
                /\ stat.mean.den > 0

\* The list [2, 0] leaves nothing after trimming: the empty sample, mean 0
\* and the bounds [0, 0] were returned.
C17_Witness ==
    /\ spc = "done"
    /\ sample_values = <<2, 0>>
    /\ stat = [sample |-> << >>, mean |-> IntV(0), std_sigma |-> <<IntV(0), IntV(0)>>]

-----------------------------------------------------------------------------
(* Claims about normalize_to_datetime and get_dates_between (SpecDates)     *)

\* The inputs the docstring of normalize_to_datetime lists: a datetime, a
\* date, a string that fromisoformat reads.
Accepted(v) ==
    \/ v.kind \in {"datetime", "date"}
    \/ v.kind = "str" /\ fromisoformat(v.text).ok
Normalized == dpc # "call" /\ normalized # NoneV
IsDatetime(r) == r.ok /\ r.value.kind = "datetime"

\* C18: for a datetime, a date or an ISO-8601 string the call returns a
\* datetime, the datetime given or the date's midnight, and normalizing
\* that result again returns it unchanged.
C18_NormalizeIsIdempotent ==
    (Normalized /\ Accepted(norm_value)) =>
        /\ IsDatetime(normalized)
        /\ norm_value.kind = "datetime" => normalized.value = norm_value
        /\ norm_value.kind = "date" =>
              normalized.value = DateTimeV(norm_value.day, MidnightTod)
        /\ dpc = "done" => renormalized = normalized

\* The date of day 2 became midnight of day 2, and stayed so.
C18_Witness ==
    /\ dpc = "done"
    /\ norm_value = DateV(2)
    /\ normalized = Ok(DateTimeV(2, MidnightTod))
    /\ renormalized = Ok(DateTimeV(2, MidnightTod))

C19_BadStringReached ==
    /\ Normalized
    /\ norm_value = StrV("not-a-date")
    /\ normalized = Raise("ValueError")
C19_NoneReached ==
    /\ Normalized
    /\ norm_value = NoneV
    /\ normalized = Ok(NoneV)

Enumerated == dpc = "done" /\ date_list # NoneV
DatetimeEarlier(a, b) == a.day < b.day \/ (a.day = b.day /\ a.tod < b.tod)

\* C20: for a datetime, date or ISO-8601 string d, get_dates_between(d, d)
\* returns the one-element list of d normalized; when the end, normalized,
\* is earlier than the start, normalized, the call returns the empty list;
\* no call with two such arguments raises.
C20_SingleDayAndEmptyRange ==
    (Enumerated /\ Accepted(range_start) /\ Accepted(range_end)) =>
        LET s == normalize_to_datetime(range_start).value
            e == normalize_to_datetime(range_end).value
        IN  /\ date_list.ok
            /\ range_start = range_end => date_list.value = <<s>>
            /\ DatetimeEarlier(e, s) => date_list.value = << >>

\* The range from 06:00 of day 1 to itself is that one instant.
C20_Witness ==
    /\ Enumerated
    /\ range_start = StrV("2025-01-01T06:00:00")
    /\ range_end = StrV("2025-01-01T06:00:00")
    /\ date_list = Ok(<<DateTimeV(1, 21600)>>)

\* The range from day 3 back to day 1 is empty.
C20_EmptyRangeReached ==
    /\ Enumerated
    /\ range_start = DateV(3)
    /\ range_end = DateV(1)
    /\ date_list = Ok(<< >>)

\* C21: when the start, normalized, is not later than the end, normalized,
\* the list starts with the normalized start, each element is one day after
\* the one before it at the same time of day, and the last element is on
\* the calendar day of the end.
C21_RangeCoversBothEnds ==
    (Enumerated /\ Accepted(range_start) /\ Accepted(range_end)) =>
        LET s == normalize_to_datetime(range_start).value
            e == normalize_to_datetime(range_end).value
            lst == date_list.value
        IN  DatetimeLeq(s, e) =>
                /\ date_list.ok
                /\ Len(lst) >= 1
                /\ lst[1] = s
                /\ \A i \in 1..(Len(lst) - 1) :
                      /\ lst[i + 1].day = lst[i].day + 1
                      /\ lst[i + 1].tod = lst[i].tod
                /\ lst[Len(lst)].day = e.day


-----------------------------------------------------------------------------
(* Claims on parse_input_granules                                           *)

RECURSIVE Flatten(_)
Flatten(batches) ==
    IF batches = << >> THEN << >> ELSE Head(batches) \o Flatten(Tail(batches))

LoopFinished == ppc \in {"report", "done"}

\* The pairs of a fetched input granule (by its place in the batches) and an
\* output revision (by its place in the list kept for that granule's id).
MatchedPairs ==
    LET fetched == Flatten(gran_batch_result)
    IN  {p \in (1..Len(fetched)) \X (1..2) :
            /\ fetched[p[1]].native_id \in DOMAIN inputgran_output_revision_dict
            /\ p[2] <= Len(inputgran_output_revision_dict[fetched[p[1]].native_id])}

PairLatency(p) ==
    LET granule == Flatten(gran_batch_result)[p[1]]
    IN  compute_granule_latency(
            inputgran_output_revision_dict[granule.native_id][p[2]],
            granule.EndingDateTime, granule.revision_date)

\* C22: after the loops, each of the three lists holds, value for value, one
\* difference for every pair of a fetched input granule and an output
\* revision recorded under that granule's id; an id recorded for the outputs
\* and not fetched adds nothing, and the three lists have the same length.
C22_OneDeltaPerMatchedPair ==
    LoopFinished =>
        \A i \in 1..Len(Metrics) :
            LET k == Metrics[i]
                deltas == time_taken_dict[k]
            IN  /\ Len(deltas) = Cardinality(MatchedPairs)
                /\ Len(deltas) = Len(time_taken_dict[Metrics[1]])
                /\ \A v \in Range(deltas) \cup {PairLatency(p)[k] : p \in MatchedPairs} :
                      Cardinality({j \in 1..Len(deltas) : deltas[j] = v})
                          = Cardinality({p \in MatchedPairs : PairLatency(p)[k] = v})

\* Reached: a finished loop with matched pairs, a fetched granule that no
\* output chose, and an id chosen by an output and not fetched.
C22_Witness ==
    /\ LoopFinished
    /\ Cardinality(MatchedPairs) >= 2
    /\ \E r \in Range(Flatten(gran_batch_result)) :
          r.native_id \notin DOMAIN inputgran_output_revision_dict
    /\ \E id \in DOMAIN inputgran_output_revision_dict :
          \A r \in Range(Flatten(gran_batch_result)) : r.native_id # id


\* The largest element of a non-empty list of differences.
LargestOf(deltas) ==
    CHOOSE v \in Range(deltas) : \A w \in Range(deltas) : w <= v

\* C28: every call returns, and for each metric that has differences the
\* tracked largest value is the largest element of its list.
C28_CompletesWithLargestTracked ==
    ppc = "done" =>
        /\ parse_outcome = "returned"
        /\ \A i \in 1..Len(Metrics) :
              time_taken_dict[Metrics[i]] # << >> =>
                  tracking_dict[Metrics[i]].mode = LargestOf(time_taken_dict[Metrics[i]])


-----------------------------------------------------------------------------
(* Malformed candidates of get_latest_input_granule (SpecLatest)            *)

\* The name has the fields that the product type's begin and end times are
\* read from (fields 5 and 6 of an SLC id, field 3 of an HLS file, fields 4
\* and 5 of an RTC file, counted from 0).
HoldsTimeFields(gran, ptype) ==
    CASE ptype \in {"CSLC-S1", "RTC-S1"} -> Len(split(gran, "_")) >= 7
      [] ptype = "DSWx-HLS" -> Len(split(gran, ".")) >= 6
      [] OTHER -> Len(split(gran, "_")) >= 6

WellFormedInputs ==
    LET Keep(gran) == HoldsTimeFields(gran, prod_type)
    IN  SelectSeq(input_gran_list, Keep)

\* C30: the call never raises, and its result is the result for the list
\* without the names that have too few fields for the times.
C30_MalformedCandidatesAreSkipped ==
    lpc = "done" =>
        /\ latest.ok
        /\ latest = get_latest_input_granule(WellFormedInputs, prod_type)


-----------------------------------------------------------------------------
(* The platform filter of query_cmr_for_products (SpecQuery)                *)

\* The places of the fetched items that are not LANDSAT-9 items.
KeptPlaces(fetched) == {i \in 1..Len(fetched) : fetched[i].platform # "LANDSAT-9"}

-----------------------------------------------------------------------------
(* The shape of the list map_granules builds (SpecRtc)                      *)

\* The mappings built so far are those of the first ids of the list, one
\* for each and in their order; the mapping of an id that does not parse
\* is not found and carries the error; found goes with a non-empty list of
\* RTC granules.
MappingsFollowIds ==
    /\ Len(mappings) = idx - 1
    /\ Len(mappings) <= Len(s1_granule_ids)
    /\ rpc = "done" => Len(mappings) = Len(s1_granule_ids)
    /\ \A i \in 1..Len(mappings) :
          /\ mappings[i].s1_granule = s1_granule_ids[i]
          /\ ~from_granule_id(s1_granule_ids[i]).ok =>
                /\ ~mappings[i].found
                /\ mappings[i].error = from_granule_id(s1_granule_ids[i]).exc
                /\ mappings[i].error # NoError
          /\ mappings[i].found <=> mappings[i].rtc_granules # << >>

\* A step that handles an id that does not parse.
ParseFailureStep ==
    /\ rpc = "next"
    /\ idx <= Len(s1_granule_ids)
    /\ ~from_granule_id(s1_granule_ids[idx]).ok

\* C27: map_granules gives one mapping per id, in order; an id that does
\* not parse gets its unfound mapping with the error in one step that sends
\* no request and goes on to the next id; found is true exactly for a
\* non-empty list of RTC granules.
C27_OneMappingPerGranule ==
    [][/\ MappingsFollowIds'
       /\ ParseFailureStep =>
             /\ rtc_requests' = rtc_requests
             /\ rtc_responses' = rtc_responses
             /\ Len(mappings') = Len(mappings) + 1
             /\ idx' = idx + 1
             /\ rpc' = "next"]_vars

\* Reached: a returned list of two mappings, the first for an id that does
\* not parse, the second found.
C27_Witness ==
    /\ rpc = "done"
    /\ Len(mappings) = 2
    /\ ~from_granule_id(s1_granule_ids[1]).ok
    /\ mappings[1].error # NoError
    /\ mappings[2].found

\* Reached: a returned mapping for an id whose timestamp does not parse.
C27_BadTimestampReached ==
    /\ rpc = "done"
    /\ \E i \in 1..Len(mappings) :
          s1_granule_ids[i] = S1_BADTIME /\ mappings[i].error # NoError


-----------------------------------------------------------------------------
(* Claims about process_dswx_by_sensing_date_range (SpecRange)              *)

\* The number of dates of the list the run has gone past.
VisitedDates ==
    CASE gpc = "call" -> 0
      [] gpc \in WriteNames -> date_idx
      [] OTHER -> date_idx - 1

Occurrences(seq, x) == Cardinality({i \in 1..Len(seq) : seq[i] = x})

\* The dates gone past are, in the list's order, each either handed once to
\* process_dswx_by_sensing_date or skipped once by resume; without resume
\* none is skipped; a finished run has gone past every date.
RunVisitsDatesInOrder ==
    /\ VisitedDates <= Len(dates_list)
    /\ Len(called_dates) + Len(skipped_dates) = VisitedDates
    /\ \A i \in 1..VisitedDates :
          Occurrences(called_dates, dates_list[i])
              + Occurrences(skipped_dates, dates_list[i]) = 1
    /\ \A i, j \in 1..Len(called_dates) :
          i < j => called_dates[i].day < called_dates[j].day
    /\ ~range_args.resume => skipped_dates = << >>
    /\ gpc = "done" => VisitedDates = Len(dates_list)

\* A step changes no file but one of the date the loop is at.
OtherDatesUntouched ==
    \A f \in FileNames :
        output_files'[f] # output_files[f] =>
            /\ gpc \in WriteNames
            /\ f.day = dates_list[date_idx].day

\* A step on which the work on a date fails: the call raised, or a write did.
DateFails ==
    \/ /\ gpc = "date"
       /\ Len(called_dates') = Len(called_dates) + 1
       /\ gpc' = "date"
    \/ /\ gpc \in WriteNames
       /\ output_files'[CASE gpc = "write_dupes" -> dupes_fname(dates_list[date_idx])
                          [] gpc = "write_orphans" -> orphan_fname(dates_list[date_idx])
                          [] OTHER -> missing_fname(dates_list[date_idx])].state
             # "complete"

\* C24: a run goes through the dates of the range in increasing order, each
\* once (a date that resume skips is not processed); a failure on a date
\* ends the work on that date only, the run goes on with the next date, and
\* no step changes a file of another date.
C24_FailureAbortsOnlyItsDate ==
    [][/\ RunVisitsDatesInOrder'
       /\ OtherDatesUntouched
       /\ DateFails => (gpc' = "date" /\ date_idx' = date_idx + 1)]_vars

\* Reached: a finished first run over two dates in which the first date
\* failed in a write and the second date has its three files.
C24_Witness ==
    /\ gpc = "done"
    /\ run_count = 1
    /\ Len(called_dates) = 2
    /\ output_files[dupes_fname(dates_list[1])] = PartialFile
    /\ output_files[dupes_fname(dates_list[2])].state = "complete"
    /\ output_files[orphan_fname(dates_list[2])].state = "complete"
    /\ output_files[missing_fname(dates_list[2])].state = "complete"

\* Reached: a finished run whose first date failed in the call and whose
\* second date was processed.
C24_QueryFailureReached ==
    /\ gpc = "done"
    /\ Len(called_dates) = 2
    /\ output_files[dupes_fname(dates_list[1])] = AbsentFile
    /\ output_files[missing_fname(dates_list[2])].state = "complete"

\* C25: a run without resume calls process_dswx_by_sensing_date once per
\* date, in order, and returns what the call for the last date returned.
C25_ReturnsLastResult ==
    (gpc = "done" /\ ~range_args.resume) =>
        /\ called_dates = dates_list
        /\ day_result = Some(DayResult(dates_list[Len(dates_list)])) =>
              range_return = day_result

\* C29: a date that resume skips has its three files.
C29_SkippedDatesAreComplete ==
    \A i \in 1..Len(skipped_dates) :
        /\ isfile(output_files, dupes_fname(skipped_dates[i]))
        /\ isfile(output_files, orphan_fname(skipped_dates[i]))
        /\ isfile(output_files, missing_fname(skipped_dates[i]))


-----------------------------------------------------------------------------
(* Claims about compare_against_riley_results (SpecCompare)                 *)

\* The input ids with more than one output: in the reference, and in the
\* computed rows.
ReferenceDuplicated == {k \in DOMAIN riley_dupes_for_date : Len(riley_dupes_for_date[k]) > 1}
ComputedDuplicated ==
    {k \in CompareInputs :
        Cardinality({i \in 1..Len(dupes_df) : dupes_df[i].InputProduct = k}) > 1}

\* The number of times an output id is listed for an input id.
TimesInReference(k, id) ==
    Cardinality({i \in 1..Len(riley_dupes_for_date[k]) : riley_dupes_for_date[k][i] = id})
TimesInComputed(k, id) ==
    Cardinality({i \in 1..Len(dupes_df) :
                    dupes_df[i].InputProduct = k /\ dupes_df[i].DSWx_ID = id})

\* C23: the call returns true exactly when the reference and the computed
\* rows have the same input ids with more than one output and, for each of
\* them, the same output ids the same number of times.
C23_TrueIffDuplicatesAgree ==
    cpc = "done" =>
        (compare_result = TRUE <=>
            /\ ReferenceDuplicated = ComputedDuplicated
            /\ \A k \in ReferenceDuplicated :
                  \A id \in Range(CompareOutputsAscending) :
                      TimesInReference(k, id) = TimesInComputed(k, id))

====
